---- MODULE Spec2Model ----
(***************************************************************************)
(* Model of the validation and pricing core of the alto ERC-4337 bundler:  *)
(*   - GasPriceManager (src/unnamed/part_001): fee estimation, bumping,    *)
(*     the two rolling queues and validateGasPrice;                        *)
(*   - UnsafeValidator (src/src/rpc/validation/UnsafeValidator.ts):        *)
(*     simulation result handling, signature / time-window / prefund       *)
(*     checks and the metrics counters.                                    *)
(* Amounts are in gwei (parseGwei("1") is 1), timestamps in milliseconds,  *)
(* validAfter / validUntil in seconds.                                     *)
(***************************************************************************)
EXTENDS Integers, Sequences, FiniteSets, TLC

VARIABLES
    chainId,                    \* this.chain.id
    noEip1559Support,           \* this.noEip1559Support
    maxQueueSize,               \* this.maxQueueSize
    queueMaxFeePerGas,          \* this.queueMaxFeePerGas
    queueMaxPriorityFeePerGas,  \* this.queueMaxPriorityFeePerGas
    now,                        \* Date.now(), in ms
    observed,                   \* history: the recordings of the last maxQueueSize seconds
    bucketsMaxFee,              \* history: per entry of queueMaxFeePerGas, what went into it
    bucketsMaxPriority,         \* history: per entry of queueMaxPriorityFeePerGas
    nRecorded,                  \* history: number of saveGasPrice calls so far
    lastGas,                    \* history: the last GasPriceManager call and its outcome
    suspended,                  \* getGasPrice calls suspended at each of their awaits
    apiVersion,                 \* this.apiVersion
    disableExpirationCheck,     \* this.disableExpirationCheck
    entryPointSimulationsAddress, \* this.entryPointSimulationsAddress is set
    metrics,                    \* this.metrics: the two counters
    lastValidation,             \* history: the last validateUserOperation call and its outcome
    applied                     \* history: the last application of a helper, its arguments and result

gasVars == <<chainId, noEip1559Support, maxQueueSize, queueMaxFeePerGas,
             queueMaxPriorityFeePerGas, observed, bucketsMaxFee,
             bucketsMaxPriority, nRecorded, lastGas, suspended>>

valVars == <<apiVersion, disableExpirationCheck, entryPointSimulationsAddress,
             metrics, lastValidation>>

vars == <<gasVars, now, valVars, applied>>

----------------------------------------------------------------------------
(* Bounds of the model *)

MaxQueueSize == 2
MaxRecorded == 3
MaxTime == 3000
MaxCalls == 1
StartTime == 10000

\* The clock advances in these steps (ms).
ClockSteps == {500, 1000}

\* Fee values (gwei) the RPC node and the gas station answer with.
FeeValues == {1, 2}

\* "undefined" for a bigint | undefined
UNDEF == -1

----------------------------------------------------------------------------
(* @alto/utils helpers *)

maxBigInt(a, b) == IF a > b THEN a ELSE b

minBigInt(a, b) == IF a < b THEN a ELSE b

\* bigint division truncates toward zero
BigIntDiv(a, b) == IF a >= 0 THEN a \div b ELSE -((-a) \div b)

----------------------------------------------------------------------------
(* Chains (viem/chains ids) and the per-chain tables of GasPriceManager *)

mainnet == 1
sepolia == 11155111
celo == 42220
celoAlfajores == 44787
celoCannoli == 17323
arbitrum == 42161
arbitrumGoerli == 421613
scroll == 534352
scrollSepolia == 534351
mantle == 5000
nautilus == 22222
base == 8453
dfk == 53935
avalanche == 43114
polygon == 137
polygonMumbai == 80001
goerli == 5

MIN_POLYGON_GAS_PRICE == 31
MIN_MUMBAI_GAS_PRICE == 1
DFK_FLOOR == 5
BUCKET_MS == 1000

getDefaultGasFee(chain) ==
    CASE chain = polygon -> MIN_POLYGON_GAS_PRICE
      [] chain = polygonMumbai -> MIN_MUMBAI_GAS_PRICE
      [] OTHER -> 0

getBumpAmount(chain) ==
    IF chain = sepolia THEN 120
    ELSE IF chain = celo THEN 150
    ELSE IF chain \in {arbitrum, scroll, scrollSepolia, arbitrumGoerli, mainnet,
                       mantle, nautilus, sepolia, base, dfk, celoAlfajores,
                       celoCannoli, avalanche} THEN 111
    ELSE 100

GasPrice(fee, priority) == [maxFeePerGas |-> fee, maxPriorityFeePerGas |-> priority]

\* variant: maxFeePerGas is not raised to maxPriorityFeePerGas before scaling
bumpTheGasPriceNoRaise(gasPriceParameters, chain) ==
    LET bumpAmount == getBumpAmount(chain)
        maxPriorityFeePerGas == maxBigInt(gasPriceParameters.maxPriorityFeePerGas,
                                          getDefaultGasFee(chain))
        maxFeePerGas == gasPriceParameters.maxFeePerGas
        result == GasPrice(BigIntDiv(maxFeePerGas * bumpAmount, 100),
                           BigIntDiv(maxPriorityFeePerGas * bumpAmount, 100))
    IN  IF chain \in {celo, celoAlfajores, celoCannoli}
        THEN LET maxFee == maxBigInt(result.maxFeePerGas, result.maxPriorityFeePerGas)
             IN  GasPrice(maxFee, maxFee)
        ELSE result

bumpTheGasPrice(gasPriceParameters, chain) ==
    LET bumpAmount == getBumpAmount(chain)
        maxPriorityFeePerGas == maxBigInt(gasPriceParameters.maxPriorityFeePerGas,
                                          getDefaultGasFee(chain))
        maxFeePerGas == maxBigInt(gasPriceParameters.maxFeePerGas, maxPriorityFeePerGas)
        result == GasPrice(BigIntDiv(maxFeePerGas * bumpAmount, 100),
                           BigIntDiv(maxPriorityFeePerGas * bumpAmount, 100))
    IN  IF chain \in {celo, celoAlfajores, celoCannoli}
        THEN LET maxFee == maxBigInt(result.maxFeePerGas, result.maxPriorityFeePerGas)
             IN  GasPrice(maxFee, maxFee)
        ELSE result

----------------------------------------------------------------------------
(* What the RPC node and the gas station can answer.  A response with      *)
(* ok = FALSE is a thrown error.                                           *)

Returned(v) == [ok |-> TRUE, value |-> v]
Thrown == [ok |-> FALSE, value |-> 0]
ThrownGasPrice == [ok |-> FALSE, value |-> GasPrice(0, 0)]
ThrownFeeHistory == [ok |-> FALSE, value |-> [hasReward |-> FALSE, reward |-> <<>>]]
ThrownBlock == [ok |-> FALSE, value |-> [baseFeePerGas |-> 0, gasUsed |-> 0, gasLimit |-> 0]]

\* publicClient.getGasPrice()
GasPriceResponses == {Thrown} \cup {Returned(v) : v \in FeeValues}

\* publicClient.getFeeHistory(...): reward missing, or cur[0] of each block
FeeHistoryResponses ==
    {ThrownFeeHistory, Returned([hasReward |-> FALSE, reward |-> <<>>]),
     Returned([hasReward |-> TRUE, reward |-> <<10, 10>>]),
     Returned([hasReward |-> TRUE, reward |-> <<5, 5, 5>>])}

\* publicClient.getBlock({blockTag: "latest"})
BlockResponses ==
    {ThrownBlock} \cup
    {Returned([baseFeePerGas |-> b, gasUsed |-> u, gasLimit |-> 8]) :
        b \in {UNDEF, 0, 2}, u \in {0, 4, 8}}

\* publicClient.estimateFeesPerGas({chain})
FeesResponses ==
    {ThrownGasPrice} \cup
    {Returned(GasPrice(f, p)) : f \in FeeValues \cup {UNDEF},
                                p \in FeeValues \cup {UNDEF, 0}}

\* publicClient.estimateFeesPerGas({chain, type: "legacy"}): gasInfo.gasPrice
LegacyFeesResponses == {Thrown, Returned(UNDEF)} \cup {Returned(v) : v \in FeeValues}

\* the gas station's fast tier, or a failed fetch / parse
GasStationResponses ==
    {ThrownGasPrice} \cup {Returned(GasPrice(f, p)) : f \in FeeValues, p \in FeeValues}

RECURSIVE SumReward(_)
SumReward(reward) ==
    IF reward = <<>> THEN 0 ELSE Head(reward) + SumReward(Tail(reward))

getFallBackMaxPriorityFeePerGas(feeHistory, gasPrice) ==
    IF ~feeHistory.ok THEN Thrown
    ELSE IF ~feeHistory.value.hasReward THEN Returned(gasPrice)
    ELSE LET feeAverage == BigIntDiv(SumReward(feeHistory.value.reward), 10)
         IN  Returned(minBigInt(feeAverage, gasPrice))

getNextBaseFee(block, gasPriceRpc) ==
    IF ~block.ok THEN Thrown
    ELSE IF block.value.baseFeePerGas \in {UNDEF, 0} /\ ~gasPriceRpc.ok THEN Thrown
    ELSE
      LET currentBaseFeePerGas ==
              IF block.value.baseFeePerGas \in {UNDEF, 0}
              THEN gasPriceRpc.value ELSE block.value.baseFeePerGas
          currentGasUsed == block.value.gasUsed
          gasTarget == BigIntDiv(block.value.gasLimit, 2)
      IN  IF currentGasUsed = gasTarget THEN Returned(currentBaseFeePerGas)
          ELSE IF gasTarget = 0 THEN Thrown   \* RangeError: division by zero
          ELSE IF currentGasUsed > gasTarget
          THEN LET gasUsedDelta == currentGasUsed - gasTarget
                   baseFeePerGasDelta ==
                       maxBigInt(BigIntDiv(BigIntDiv(currentBaseFeePerGas * gasUsedDelta,
                                                     gasTarget), 8), 1)
               IN  Returned(currentBaseFeePerGas + baseFeePerGasDelta)
          ELSE LET gasUsedDelta == currentGasUsed - gasTarget
                   baseFeePerGasDelta ==
                       BigIntDiv(BigIntDiv(currentBaseFeePerGas * gasUsedDelta,
                                           gasTarget), 8)
               IN  Returned(currentBaseFeePerGas - baseFeePerGasDelta)

\* variant: no fallback to getGasPrice() when the legacy estimate is missing
getNoEip1559SupportGasPriceNoFallBack(legacyFees, gasPriceRpc) ==
    IF legacyFees.ok /\ legacyFees.value # UNDEF
    THEN Returned(GasPrice(legacyFees.value, legacyFees.value))
    ELSE ThrownGasPrice

getNoEip1559SupportGasPrice(legacyFees, gasPriceRpc) ==
    LET gasPrice == IF legacyFees.ok THEN legacyFees.value ELSE UNDEF
    IN  IF gasPrice = UNDEF
        THEN IF gasPriceRpc.ok
             THEN Returned(GasPrice(gasPriceRpc.value, gasPriceRpc.value))
             ELSE ThrownGasPrice
        ELSE Returned(GasPrice(gasPrice, gasPrice))

estimateGasPrice(fees, feeHistory, block, gasPriceRpc) ==
    LET maxFee0 == IF fees.ok THEN fees.value.maxFeePerGas ELSE UNDEF
        maxPrio0 == IF fees.ok THEN fees.value.maxPriorityFeePerGas ELSE UNDEF
        fallbackPrio ==
            getFallBackMaxPriorityFeePerGas(feeHistory,
                                            IF maxFee0 = UNDEF THEN 0 ELSE maxFee0)
    IN  IF maxPrio0 = UNDEF /\ ~fallbackPrio.ok THEN ThrownGasPrice
        ELSE
          LET maxPrio1 == IF maxPrio0 = UNDEF THEN fallbackPrio.value ELSE maxPrio0
              nextBaseFee == getNextBaseFee(block, gasPriceRpc)
          IN  IF maxFee0 = UNDEF /\ ~nextBaseFee.ok THEN ThrownGasPrice
              ELSE
                LET maxFee1 == IF maxFee0 = UNDEF
                               THEN nextBaseFee.value + maxPrio1 ELSE maxFee0
                    maxPrio2 == IF maxPrio1 = 0 THEN BigIntDiv(maxFee1, 200)
                                ELSE maxPrio1
                IN  Returned(GasPrice(maxFee1, maxPrio2))

\* every outcome of the three fee sources, over all answers of the node
NoEip1559Results ==
    {getNoEip1559SupportGasPrice(l, g) : l \in LegacyFeesResponses, g \in GasPriceResponses}

EstimateGasPriceResults ==
    {estimateGasPrice(f, h, b, g) : f \in FeesResponses, h \in FeeHistoryResponses,
                                    b \in BlockResponses, g \in GasPriceResponses}

----------------------------------------------------------------------------
(* The two rolling queues *)

FeeEntry(gasPrice, timestamp) == [maxFeePerGas |-> gasPrice, timestamp |-> timestamp]
PriorityEntry(gasPrice, timestamp) ==
    [maxPriorityFeePerGas |-> gasPrice, timestamp |-> timestamp]

\* variant: the front entry is dropped only once the queue is over capacity
saveMaxFeePerGasShiftLate(queue, gasPrice, timestamp, maxSize) ==
    IF Len(queue) = 0 \/ timestamp - queue[Len(queue)].timestamp >= BUCKET_MS
    THEN [queue |-> Append(IF Len(queue) > maxSize THEN Tail(queue) ELSE queue,
                           FeeEntry(gasPrice, timestamp)),
          did |-> "push"]
    ELSE IF gasPrice < queue[Len(queue)].maxFeePerGas
    THEN [queue |-> [queue EXCEPT ![Len(queue)] = FeeEntry(gasPrice, timestamp)],
          did |-> "overwrite"]
    ELSE [queue |-> queue, did |-> "none"]

\* variant: the tail is overwritten by a higher price instead of a lower one
saveMaxFeePerGasKeepHighest(queue, gasPrice, timestamp, maxSize) ==
    IF Len(queue) = 0 \/ timestamp - queue[Len(queue)].timestamp >= BUCKET_MS
    THEN [queue |-> Append(IF Len(queue) >= maxSize /\ Len(queue) > 0
                           THEN Tail(queue) ELSE queue,
                           FeeEntry(gasPrice, timestamp)),
          did |-> "push"]
    ELSE IF gasPrice > queue[Len(queue)].maxFeePerGas
    THEN [queue |-> [queue EXCEPT ![Len(queue)] = FeeEntry(gasPrice, timestamp)],
          did |-> "overwrite"]
    ELSE [queue |-> queue, did |-> "none"]

\* variant: a new entry needs more than one second since the tail
saveMaxPriorityFeePerGasLateBucket(queue, gasPrice, timestamp, maxSize) ==
    IF Len(queue) = 0 \/ timestamp - queue[Len(queue)].timestamp > BUCKET_MS
    THEN [queue |-> Append(IF Len(queue) >= maxSize /\ Len(queue) > 0
                           THEN Tail(queue) ELSE queue,
                           PriorityEntry(gasPrice, timestamp)),
          did |-> "push"]
    ELSE IF gasPrice < queue[Len(queue)].maxPriorityFeePerGas
    THEN [queue |-> [queue EXCEPT ![Len(queue)] = PriorityEntry(gasPrice, timestamp)],
          did |-> "overwrite"]
    ELSE [queue |-> queue, did |-> "none"]

\* variant: a new entry is pushed half a second after the tail already
saveMaxFeePerGasHalfSecond(queue, gasPrice, timestamp, maxSize) ==
    IF Len(queue) = 0 \/ 2 * (timestamp - queue[Len(queue)].timestamp) >= BUCKET_MS
    THEN [queue |-> Append(IF Len(queue) >= maxSize /\ Len(queue) > 0
                           THEN Tail(queue) ELSE queue,
                           FeeEntry(gasPrice, timestamp)),
          did |-> "push"]
    ELSE IF gasPrice < queue[Len(queue)].maxFeePerGas
    THEN [queue |-> [queue EXCEPT ![Len(queue)] = FeeEntry(gasPrice, timestamp)],
          did |-> "overwrite"]
    ELSE [queue |-> queue, did |-> "none"]

\* variant: at capacity the newest entry makes room instead of the oldest
saveMaxFeePerGasEvictNewest(queue, gasPrice, timestamp, maxSize) ==
    IF Len(queue) = 0 \/ timestamp - queue[Len(queue)].timestamp >= BUCKET_MS
    THEN [queue |-> Append(IF Len(queue) >= maxSize /\ Len(queue) > 0
                           THEN SubSeq(queue, 1, Len(queue) - 1) ELSE queue,
                           FeeEntry(gasPrice, timestamp)),
          did |-> "push"]
    ELSE IF gasPrice < queue[Len(queue)].maxFeePerGas
    THEN [queue |-> [queue EXCEPT ![Len(queue)] = FeeEntry(gasPrice, timestamp)],
          did |-> "overwrite"]
    ELSE [queue |-> queue, did |-> "none"]

\* saveMaxFeePerGas: the queue it leaves, and which branch it took
saveMaxFeePerGas(queue, gasPrice, timestamp, maxSize) ==
    IF Len(queue) = 0 \/ timestamp - queue[Len(queue)].timestamp >= BUCKET_MS
    THEN [queue |-> Append(IF Len(queue) >= maxSize /\ Len(queue) > 0
                           THEN Tail(queue) ELSE queue,
                           FeeEntry(gasPrice, timestamp)),
          did |-> "push"]
    ELSE IF gasPrice < queue[Len(queue)].maxFeePerGas
    THEN [queue |-> [queue EXCEPT ![Len(queue)] = FeeEntry(gasPrice, timestamp)],
          did |-> "overwrite"]
    ELSE [queue |-> queue, did |-> "none"]

saveMaxPriorityFeePerGas(queue, gasPrice, timestamp, maxSize) ==
    IF Len(queue) = 0 \/ timestamp - queue[Len(queue)].timestamp >= BUCKET_MS
    THEN [queue |-> Append(IF Len(queue) >= maxSize /\ Len(queue) > 0
                           THEN Tail(queue) ELSE queue,
                           PriorityEntry(gasPrice, timestamp)),
          did |-> "push"]
    ELSE IF gasPrice < queue[Len(queue)].maxPriorityFeePerGas
    THEN [queue |-> [queue EXCEPT ![Len(queue)] = PriorityEntry(gasPrice, timestamp)],
          did |-> "overwrite"]
    ELSE [queue |-> queue, did |-> "none"]

\* queue.reduce((acc, cur) => minBigInt(cur.maxFeePerGas, acc), queue[0].maxFeePerGas)
RECURSIVE reduceMaxFeePerGas(_, _)
reduceMaxFeePerGas(queue, acc) ==
    IF queue = <<>> THEN acc
    ELSE reduceMaxFeePerGas(Tail(queue), minBigInt(Head(queue).maxFeePerGas, acc))

RECURSIVE reduceMaxPriorityFeePerGas(_, _)
reduceMaxPriorityFeePerGas(queue, acc) ==
    IF queue = <<>> THEN acc
    ELSE reduceMaxPriorityFeePerGas(Tail(queue),
                                    minBigInt(Head(queue).maxPriorityFeePerGas, acc))

\* variant: getMinMax* calls getGasPrice whatever the queue holds
primesAlways(queue) == TRUE

\* getMinMax* calls getGasPrice first: if (queue.length === 0)
primes(queue) == Len(queue) = 0

\* getMinMaxFeePerGas / getMinMaxPriorityFeePerGas once the queue is not empty
getMinMaxFeePerGas(queue) == reduceMaxFeePerGas(queue, queue[1].maxFeePerGas)

getMinMaxPriorityFeePerGas(queue) ==
    reduceMaxPriorityFeePerGas(queue, queue[1].maxPriorityFeePerGas)

\* variant: a submission equal to the lowest maxFeePerGas is rejected too
validateGasPriceCheckAboveOnly(gasPrice, lowestMaxFeePerGas, lowestMaxPriorityFeePerGas) ==
    IF gasPrice.maxFeePerGas <= lowestMaxFeePerGas
    THEN "maxFeePerGas must be at least"
    ELSE IF gasPrice.maxPriorityFeePerGas < lowestMaxPriorityFeePerGas
    THEN "maxPriorityFeePerGas must be at least"
    ELSE "ok"

\* variant: only a submission equal to the lowest maxFeePerGas passes
validateGasPriceCheckExact(gasPrice, lowestMaxFeePerGas, lowestMaxPriorityFeePerGas) ==
    IF gasPrice.maxFeePerGas # lowestMaxFeePerGas
    THEN "maxFeePerGas must be at least"
    ELSE IF gasPrice.maxPriorityFeePerGas < lowestMaxPriorityFeePerGas
    THEN "maxPriorityFeePerGas must be at least"
    ELSE "ok"

\* the two comparisons of validateGasPrice
validateGasPriceCheck(gasPrice, lowestMaxFeePerGas, lowestMaxPriorityFeePerGas) ==
    IF gasPrice.maxFeePerGas < lowestMaxFeePerGas
    THEN "maxFeePerGas must be at least"
    ELSE IF gasPrice.maxPriorityFeePerGas < lowestMaxPriorityFeePerGas
    THEN "maxPriorityFeePerGas must be at least"
    ELSE "ok"

----------------------------------------------------------------------------
(* getGasPrice *)

maxFeeFloor(chain) == IF chain = dfk THEN DFK_FLOOR ELSE 0
maxPriorityFeeFloor(chain) == IF chain = dfk THEN DFK_FLOOR ELSE 0

\* a getGasPrice call: whether it was made, whether it returned, the value it
\* returned and the value it handed to saveGasPrice
NoCall == [called |-> FALSE, ok |-> TRUE, gasPrice |-> GasPrice(0, 0),
           saved |-> GasPrice(0, 0)]
FailedCall == [called |-> TRUE, ok |-> FALSE, gasPrice |-> GasPrice(0, 0),
               saved |-> GasPrice(0, 0)]

SaveAndReturn(gasPrice, chain) ==
    [called |-> TRUE, ok |-> TRUE, gasPrice |-> gasPrice,
     saved |-> GasPrice(maxBigInt(gasPrice.maxFeePerGas, maxFeeFloor(chain)),
                        maxBigInt(gasPrice.maxPriorityFeePerGas,
                                  maxPriorityFeeFloor(chain)))]

\* variant: on Polygon and Mumbai only the gas station is ever consulted
getGasPriceSourcesStationOnly(chain, legacy, polygonEstimate) ==
    IF chain \in {polygon, polygonMumbai} THEN <<"gasStation">>
    ELSE IF legacy THEN <<"legacy">> ELSE <<"eip1559">>

\* the fee sources a getGasPrice call consults, in order; the last one gives
\* the estimate (or fails the call)
getGasPriceSources(chain, legacy, polygonEstimate) ==
    (IF chain \in {polygon, polygonMumbai} THEN <<"gasStation">> ELSE <<>>)
    \o (IF chain \in {polygon, polygonMumbai} /\ polygonEstimate.ok THEN <<>>
        ELSE IF legacy THEN <<"legacy">> ELSE <<"eip1559">>)

getGasPrice(chain, legacy, polygonEstimate, legacyResult, estimateResult) ==
    LET sources == getGasPriceSources(chain, legacy, polygonEstimate)
        estimate == CASE sources[Len(sources)] = "gasStation" -> polygonEstimate
                      [] sources[Len(sources)] = "legacy" -> legacyResult
                      [] OTHER -> estimateResult
    IN  IF estimate.ok
        THEN SaveAndReturn(bumpTheGasPrice(estimate.value, chain), chain)
        ELSE FailedCall

\* every way a getGasPrice call can end on this chain
GetGasPriceCalls(chain, legacy) ==
    {getGasPrice(chain, legacy, s, l, e) :
        s \in IF chain \in {polygon, polygonMumbai}
              THEN GasStationResponses ELSE {ThrownGasPrice},
        l \in IF legacy THEN NoEip1559Results ELSE {ThrownGasPrice},
        e \in IF legacy THEN {ThrownGasPrice} ELSE EstimateGasPriceResults}

----------------------------------------------------------------------------
(* State of the GasPriceManager and the steps on it *)

\* history kept per queue entry: when the entry was pushed, the lowest price
\* and the latest timestamp of the recordings that fell into it
Bucket(gasPrice, timestamp) ==
    [created |-> timestamp, minSeen |-> gasPrice, lastSeen |-> timestamp]

Coalesce(buckets, gasPrice, timestamp) ==
    [buckets EXCEPT ![Len(buckets)] =
        [created |-> @.created, minSeen |-> minBigInt(@.minSeen, gasPrice),
         lastSeen |-> timestamp]]

\* history of one saveGasPrice call: the branch taken on each queue, and
\* whether the push on it removed the front entry
NoSave == [recorded |-> FALSE, did |-> <<"none", "none">>,
           evicted |-> <<FALSE, FALSE>>]

Evicts(before, step) == step.did = "push" /\ Len(step.queue) <= Len(before)

UpdateBuckets(buckets, before, step, gasPrice, timestamp) ==
    IF step.did = "push"
    THEN Append(IF Evicts(before, step) /\ Len(buckets) > 0
                THEN Tail(buckets) ELSE buckets,
                Bucket(gasPrice, timestamp))
    ELSE Coalesce(buckets, gasPrice, timestamp)

Recent(obs, timestamp, windowMs) == {o \in obs : timestamp - o.timestamp <= windowMs}

GasState ==
    [queueMaxFeePerGas |-> queueMaxFeePerGas,
     queueMaxPriorityFeePerGas |-> queueMaxPriorityFeePerGas,
     bucketsMaxFee |-> bucketsMaxFee, bucketsMaxPriority |-> bucketsMaxPriority,
     observed |-> observed, nRecorded |-> nRecorded, lastSave |-> NoSave]

\* variant: only the maxFeePerGas queue is recorded to
saveGasPriceFeeOnly(st, gasPrice, timestamp) ==
    LET fee == saveMaxFeePerGas(st.queueMaxFeePerGas, gasPrice.maxFeePerGas,
                                timestamp, maxQueueSize)
    IN  [queueMaxFeePerGas |-> fee.queue,
         queueMaxPriorityFeePerGas |-> st.queueMaxPriorityFeePerGas,
         bucketsMaxFee |-> UpdateBuckets(st.bucketsMaxFee, st.queueMaxFeePerGas, fee,
                                         gasPrice.maxFeePerGas, timestamp),
         bucketsMaxPriority |-> st.bucketsMaxPriority,
         observed |-> Recent(st.observed, timestamp, maxQueueSize * BUCKET_MS) \cup
                      {[timestamp |-> timestamp,
                        maxFeePerGas |-> gasPrice.maxFeePerGas,
                        maxPriorityFeePerGas |-> gasPrice.maxPriorityFeePerGas]},
         nRecorded |-> st.nRecorded + 1,
         lastSave |-> [recorded |-> TRUE, did |-> <<fee.did, "none">>,
                       evicted |-> <<Evicts(st.queueMaxFeePerGas, fee), FALSE>>]]

\* saveGasPrice(gasPrice, timestamp) on state st
saveGasPrice(st, gasPrice, timestamp) ==
    LET fee == saveMaxFeePerGas(st.queueMaxFeePerGas, gasPrice.maxFeePerGas,
                                timestamp, maxQueueSize)
        prio == saveMaxPriorityFeePerGas(st.queueMaxPriorityFeePerGas,
                                         gasPrice.maxPriorityFeePerGas,
                                         timestamp, maxQueueSize)
    IN  [queueMaxFeePerGas |-> fee.queue,
         queueMaxPriorityFeePerGas |-> prio.queue,
         bucketsMaxFee |-> UpdateBuckets(st.bucketsMaxFee, st.queueMaxFeePerGas, fee,
                                         gasPrice.maxFeePerGas, timestamp),
         bucketsMaxPriority |-> UpdateBuckets(st.bucketsMaxPriority,
                                              st.queueMaxPriorityFeePerGas, prio,
                                              gasPrice.maxPriorityFeePerGas, timestamp),
         observed |-> Recent(st.observed, timestamp, maxQueueSize * BUCKET_MS) \cup
                      {[timestamp |-> timestamp,
                        maxFeePerGas |-> gasPrice.maxFeePerGas,
                        maxPriorityFeePerGas |-> gasPrice.maxPriorityFeePerGas]},
         nRecorded |-> st.nRecorded + 1,
         lastSave |-> [recorded |-> TRUE, did |-> <<fee.did, prio.did>>,
                       evicted |-> <<Evicts(st.queueMaxFeePerGas, fee),
                                     Evicts(st.queueMaxPriorityFeePerGas, prio)>>]]

\* variant: a call that throws records the zero price
AfterCallRecordFailure(st, call) ==
    IF call.called THEN saveGasPrice(st, call.saved, now) ELSE st

\* the state a getGasPrice call leaves
AfterCall(st, call) ==
    IF call.called /\ call.ok THEN saveGasPrice(st, call.saved, now) ELSE st

SetGasState(st) ==
    /\ queueMaxFeePerGas' = st.queueMaxFeePerGas
    /\ queueMaxPriorityFeePerGas' = st.queueMaxPriorityFeePerGas
    /\ bucketsMaxFee' = st.bucketsMaxFee
    /\ bucketsMaxPriority' = st.bucketsMaxPriority
    /\ observed' = st.observed
    /\ nRecorded' = st.nRecorded

\* no getGasPrice call is in flight
NoneSuspended == [gasStation |-> 0, estimate |-> 0]

NoGasCall ==
    [op |-> "none", ok |-> TRUE, error |-> "", gasPrice |-> GasPrice(0, 0),
     saved |-> GasPrice(0, 0), fetched |-> FALSE, save |-> NoSave,
     lowestMaxFeePerGas |-> 0, lowestMaxPriorityFeePerGas |-> 0]

\* prices a client submits to validateGasPrice
SubmittedValues == {1, 2}

\* public getGasPrice()
GetGasPrice ==
    /\ nRecorded < MaxRecorded
    /\ \E call \in GetGasPriceCalls(chainId, noEip1559Support) :
          /\ SetGasState(AfterCall(GasState, call))
          /\ lastGas' = [NoGasCall EXCEPT !.op = "getGasPrice", !.ok = call.ok,
                            !.error = IF call.ok THEN "" ELSE "thrown",
                            !.gasPrice = call.gasPrice, !.saved = call.saved,
                            !.fetched = TRUE,
                            !.save = AfterCall(GasState, call).lastSave]
    /\ UNCHANGED <<chainId, noEip1559Support, maxQueueSize, now, suspended,
                   valVars, applied>>

\* public validateGasPrice(gasPrice)
ValidateGasPrice ==
    /\ nRecorded < MaxRecorded \/ Len(queueMaxFeePerGas) > 0
    /\ \E fee \in SubmittedValues, priority \in SubmittedValues :
       \E call1 \in IF primes(queueMaxFeePerGas)
                    THEN GetGasPriceCalls(chainId, noEip1559Support) ELSE {NoCall} :
          LET gasPrice == GasPrice(fee, priority)
              st1 == AfterCall(GasState, call1)
              this == [NoGasCall EXCEPT !.op = "validateGasPrice",
                          !.gasPrice = gasPrice,
                          !.saved = call1.saved]
          IN  IF ~call1.ok
              THEN /\ SetGasState(st1)
                   /\ lastGas' = [this EXCEPT !.ok = FALSE, !.error = "thrown",
                                              !.fetched = TRUE]
              ELSE
                \E call2 \in IF primes(st1.queueMaxPriorityFeePerGas)
                             THEN GetGasPriceCalls(chainId, noEip1559Support)
                             ELSE {NoCall} :
                   LET st2 == AfterCall(st1, call2)
                       fetched == call1.called \/ call2.called
                   IN  IF ~call2.ok
                       THEN /\ SetGasState(st2)
                            /\ lastGas' = [this EXCEPT !.ok = FALSE,
                                              !.error = "thrown", !.fetched = TRUE]
                       ELSE
                         LET lowestMaxFeePerGas ==
                                 getMinMaxFeePerGas(st1.queueMaxFeePerGas)
                             lowestMaxPriorityFeePerGas ==
                                 getMinMaxPriorityFeePerGas(st2.queueMaxPriorityFeePerGas)
                             verdict == validateGasPriceCheck(gasPrice,
                                            lowestMaxFeePerGas,
                                            lowestMaxPriorityFeePerGas)
                         IN  /\ SetGasState(st2)
                             /\ lastGas' = [this EXCEPT !.ok = (verdict = "ok"),
                                   !.save = st2.lastSave,
                                   !.error = IF verdict = "ok" THEN "" ELSE verdict,
                                   !.fetched = fetched,
                                   !.lowestMaxFeePerGas = lowestMaxFeePerGas,
                                   !.lowestMaxPriorityFeePerGas =
                                       lowestMaxPriorityFeePerGas]
    /\ UNCHANGED <<chainId, noEip1559Support, maxQueueSize, now, suspended,
                   valVars, applied>>

\* the wall clock advances
Tick ==
    /\ \E d \in ClockSteps :
          /\ now + d <= StartTime + MaxTime
          /\ now' = now + d
          /\ observed' = Recent(observed, now + d, maxQueueSize * BUCKET_MS)
    /\ lastGas' = NoGasCall
    /\ UNCHANGED <<chainId, noEip1559Support, maxQueueSize, queueMaxFeePerGas,
                   queueMaxPriorityFeePerGas, bucketsMaxFee, bucketsMaxPriority,
                   nRecorded, suspended, valVars, applied>>

----------------------------------------------------------------------------
(* getGasPrice step by step: a call suspends at the gas station fetch and   *)
(* at the estimation it falls through to; its record step takes Date.now()  *)
(* when it runs and is not interrupted                                      *)

\* a call enters getGasPrice and suspends at its first await
BeginGetGasPrice ==
    /\ nRecorded + suspended.gasStation + suspended.estimate < MaxRecorded
    /\ suspended' = IF chainId \in {polygon, polygonMumbai}
                    THEN [suspended EXCEPT !.gasStation = @ + 1]
                    ELSE [suspended EXCEPT !.estimate = @ + 1]
    /\ UNCHANGED <<chainId, noEip1559Support, maxQueueSize, queueMaxFeePerGas,
                   queueMaxPriorityFeePerGas, observed, bucketsMaxFee,
                   bucketsMaxPriority, nRecorded, lastGas, now, valVars, applied>>

\* the record step and return (or the throw) of a call that ends as `call`
EndGetGasPrice(call) ==
    /\ SetGasState(AfterCall(GasState, call))
    /\ lastGas' = [NoGasCall EXCEPT !.op = "getGasPrice", !.ok = call.ok,
                      !.error = IF call.ok THEN "" ELSE "thrown",
                      !.gasPrice = call.gasPrice, !.saved = call.saved,
                      !.fetched = TRUE,
                      !.save = AfterCall(GasState, call).lastSave]

\* the gas station answers a suspended call: the call records and returns,
\* or falls through to the estimation and suspends there
ResumeAtGasStation ==
    /\ suspended.gasStation > 0
    /\ \E polygonEstimate \in GasStationResponses :
          IF getGasPriceSources(chainId, noEip1559Support, polygonEstimate)
                = <<"gasStation">>
          THEN /\ EndGetGasPrice(getGasPrice(chainId, noEip1559Support,
                                             polygonEstimate, ThrownGasPrice,
                                             ThrownGasPrice))
               /\ suspended' = [suspended EXCEPT !.gasStation = @ - 1]
          ELSE /\ suspended' = [suspended EXCEPT !.gasStation = @ - 1,
                                                 !.estimate = @ + 1]
               /\ UNCHANGED <<queueMaxFeePerGas, queueMaxPriorityFeePerGas,
                              observed, bucketsMaxFee, bucketsMaxPriority,
                              nRecorded, lastGas>>
    /\ UNCHANGED <<chainId, noEip1559Support, maxQueueSize, now, valVars, applied>>

\* the node answers a call suspended in getNoEip1559SupportGasPrice or
\* estimateGasPrice: the call records and returns, or throws
ResumeAtEstimate ==
    /\ suspended.estimate > 0
    /\ \E legacyResult \in IF noEip1559Support
                            THEN NoEip1559Results ELSE {ThrownGasPrice},
          estimateResult \in IF noEip1559Support
                              THEN {ThrownGasPrice} ELSE EstimateGasPriceResults :
          EndGetGasPrice(getGasPrice(chainId, noEip1559Support, ThrownGasPrice,
                                     legacyResult, estimateResult))
    /\ suspended' = [suspended EXCEPT !.estimate = @ - 1]
    /\ UNCHANGED <<chainId, noEip1559Support, maxQueueSize, now, valVars, applied>>

----------------------------------------------------------------------------
(* UnsafeValidator: user operations and what the EntryPoint answers *)

NULL == "null"

\* truthiness of a string | null | undefined
Truthy(x) == x \notin {"", NULL}

\* @alto/utils: a v0.6 operation carries initCode / paymasterAndData,
\* a v0.7 operation carries factory / paymaster
isVersion06(userOperation) ==
    {"initCode", "paymasterAndData"} \subseteq DOMAIN userOperation

isVersion07(userOperation) ==
    {"factory", "paymaster"} \subseteq DOMAIN userOperation

UserOperationsV06 ==
    {[sender |-> "0xsender", initCode |-> "0x", paymasterAndData |-> pm,
      preVerificationGas |-> 1] : pm \in {"0x", "0xpaymaster"}}

UserOperationsV07 ==
    {[sender |-> "0xsender", factory |-> NULL, paymaster |-> pm,
      preVerificationGas |-> 1] : pm \in {NULL, "0xpaymaster"}}

UserOperations == UserOperationsV06 \cup UserOperationsV07

\* The 256-bit validationData word, with its fields narrowed so that the
\* word fits the model checker's integers: UINT48_SPAN stands for 2^48,
\* ADDRESS_SPAN for 2^160.
UINT48_SPAN == 64
ADDRESS_SPAN == 4
zeroAddress == 0

\* the EntryPoint's packing: validAfter | validUntil | aggregator
packValidationData(aggregator, validUntil, validAfter) ==
    (validAfter * UINT48_SPAN + validUntil) * ADDRESS_SPAN + aggregator

\* variant: validUntil and validAfter are read from each other's bytes
parseValidationDataSwapped(validationData) ==
    LET maxUint48 == UINT48_SPAN - 1
        aggregator == validationData % ADDRESS_SPAN
        validAfter == (validationData \div ADDRESS_SPAN) % UINT48_SPAN
        validUntil0 == validationData \div (ADDRESS_SPAN * UINT48_SPAN)
    IN  [aggregator |-> aggregator,
         validAfter |-> validAfter,
         validUntil |-> IF validUntil0 = 0 THEN maxUint48 ELSE validUntil0]

parseValidationData(validationData) ==
    LET maxUint48 == UINT48_SPAN - 1
        aggregator == validationData % ADDRESS_SPAN
        validUntil0 == (validationData \div ADDRESS_SPAN) % UINT48_SPAN
        validAfter == validationData \div (ADDRESS_SPAN * UINT48_SPAN)
    IN  [aggregator |-> aggregator,
         validAfter |-> validAfter,
         validUntil |-> IF validUntil0 = 0 THEN maxUint48 ELSE validUntil0]

\* variant: the later of the two validUntil is kept
mergeValidationDataLatestUntil(accountValidationData, paymasterValidationData) ==
    [paymasterSigFailed |-> paymasterValidationData.aggregator # zeroAddress,
     accountSigFailed |-> accountValidationData.aggregator # zeroAddress,
     validAfter |-> maxBigInt(accountValidationData.validAfter,
                              paymasterValidationData.validAfter),
     validUntil |-> maxBigInt(accountValidationData.validUntil,
                              paymasterValidationData.validUntil)]

\* variant: the paymaster's flag is read from the account's aggregator
mergeValidationDataAccountOnly(accountValidationData, paymasterValidationData) ==
    [paymasterSigFailed |-> accountValidationData.aggregator # zeroAddress,
     accountSigFailed |-> accountValidationData.aggregator # zeroAddress,
     validAfter |-> maxBigInt(accountValidationData.validAfter,
                              paymasterValidationData.validAfter),
     validUntil |-> minBigInt(accountValidationData.validUntil,
                              paymasterValidationData.validUntil)]

\* variant: only the marker address 1 counts as a signature failure
mergeValidationDataMarkerOnly(accountValidationData, paymasterValidationData) ==
    [paymasterSigFailed |-> paymasterValidationData.aggregator = 1,
     accountSigFailed |-> accountValidationData.aggregator = 1,
     validAfter |-> maxBigInt(accountValidationData.validAfter,
                              paymasterValidationData.validAfter),
     validUntil |-> minBigInt(accountValidationData.validUntil,
                              paymasterValidationData.validUntil)]

mergeValidationData(accountValidationData, paymasterValidationData) ==
    [paymasterSigFailed |-> paymasterValidationData.aggregator # zeroAddress,
     accountSigFailed |-> accountValidationData.aggregator # zeroAddress,
     validAfter |-> maxBigInt(accountValidationData.validAfter,
                              paymasterValidationData.validAfter),
     validUntil |-> minBigInt(accountValidationData.validUntil,
                              paymasterValidationData.validUntil)]

mergeValidationDataValues(accountValidationData, paymasterValidationData) ==
    mergeValidationData(parseValidationData(accountValidationData),
                        parseValidationData(paymasterValidationData))

\* returnInfo.prefund values the simulation reports
PrefundValues == {3, 5}

\* results of calcVerificationGasAndCallGasLimit: <<verificationGasLimit, callGasLimit>>
GasLimitResults == {<<1, 1>>, <<2, 1>>}

ReturnInfosV06 ==
    {[preOpGas |-> 1, prefund |-> pf, sigFailed |-> sf, validAfter |-> va,
      validUntil |-> vu] :
        pf \in PrefundValues, sf \in BOOLEAN, va \in {5, 7}, vu \in {41, 63}}

NoReturnInfo ==
    [preOpGas |-> 0, prefund |-> 0, sigFailed |-> FALSE, validAfter |-> 0,
     validUntil |-> 0]

\* what entryPointContract.simulate.simulateValidation(...).catch(...) yields:
\* the Error the call rejected with, or the value it resolved to when it did
\* not revert (neither parsed by the schema nor a BaseError); thrownNonError
\* is a rejection with something that is not an Error, which .catch rethrows
ErrorResult(parses, isBaseError, errorName, reason, returnInfo) ==
    [thrownNonError |-> FALSE, parses |-> parses, isBaseError |-> isBaseError,
     errorName |-> errorName, reason |-> reason, returnInfo |-> returnInfo]

ErrorResultsV06 ==
    {ErrorResult(TRUE, TRUE, "ValidationResult", "", ri) : ri \in ReturnInfosV06}
    \cup {ErrorResult(TRUE, TRUE, "ValidationResultWithAggregation", "", ri) :
             ri \in {r \in ReturnInfosV06 : r.validAfter = 5 /\ r.validUntil = 63}}
    \cup {ErrorResult(TRUE, TRUE, "FailedOp", "AA25 invalid account nonce", NoReturnInfo),
          ErrorResult(TRUE, TRUE, "ExecutionResult", "", NoReturnInfo),
          ErrorResult(FALSE, TRUE, "", "undefined", NoReturnInfo),
          ErrorResult(FALSE, FALSE, "", "", NoReturnInfo),
          [ErrorResult(FALSE, FALSE, "", "", NoReturnInfo) EXCEPT !.thrownNonError = TRUE]}

AccountValidationDatas ==
    {packValidationData(0, 0, 0), packValidationData(1, 0, 0),
     packValidationData(2, 0, 0), packValidationData(0, 41, 5),
     packValidationData(0, 63, 7)}

PaymasterValidationDatas ==
    {packValidationData(0, 0, 0), packValidationData(1, 0, 0),
     packValidationData(0, 41, 0), packValidationData(0, 0, 7)}

\* what simulateValidation of EntryPointSimulationsV07 yields
SimulateValidationResultsV07 ==
    {[thrown |-> t, status |-> "failed", reason |-> "AA25 invalid account nonce",
      returnInfo |-> [preOpGas |-> 0, prefund |-> 0, accountValidationData |-> 0,
                      paymasterValidationData |-> 0],
      hasFactoryInfo |-> FALSE, hasPaymasterInfo |-> FALSE] : t \in BOOLEAN}
    \cup
    {[thrown |-> FALSE, status |-> "validation", reason |-> "",
      returnInfo |-> [preOpGas |-> 1, prefund |-> pf, accountValidationData |-> a,
                      paymasterValidationData |-> p],
      hasFactoryInfo |-> TRUE, hasPaymasterInfo |-> TRUE] :
        pf \in PrefundValues, a \in AccountValidationDatas,
        p \in PaymasterValidationDatas}

----------------------------------------------------------------------------
(* UnsafeValidator: the checks *)

NoResult == [returnInfo |-> NoReturnInfo, storageMap |-> {}]

\* how a call ends: it returns `result`, or throws an error with this code
\* (an RpcError's ValidationErrors code, "Error" for a plain Error) and message
Admit(result) ==
    [ok |-> TRUE, code |-> "", message |-> "", sentry |-> FALSE, result |-> result]

Throw(code, message, sentry) ==
    [ok |-> FALSE, code |-> code, message |-> message, sentry |-> sentry,
     result |-> NoResult]

\* a StakeInfo argument of a decoded ValidationResult: the entry point
\* reports stake and unstakeDelaySec, no address
DecodedStakeInfo == [present |-> TRUE, addr |-> NULL]

\* an absent (undefined) factoryInfo / paymasterInfo
NoStakeInfo == [present |-> FALSE, addr |-> NULL]

\* variant: every decoded error but FailedOp has its arguments returned
getSimulationResultAnyName(errorResult, simulationType) ==
    IF ~errorResult.parses
    THEN IF errorResult.isBaseError
         THEN Throw("SimulateValidation",
                    "UserOperation reverted during simulation with reason: "
                        \o errorResult.reason, FALSE)
         ELSE Throw("Error",
                    "User Operation simulation returned unexpected invalid response", TRUE)
    ELSE IF errorResult.errorName = "FailedOp"
    THEN Throw("SimulateValidation",
               "UserOperation reverted during simulation with reason: "
                   \o errorResult.reason, FALSE)
    ELSE Admit([returnInfo |-> errorResult.returnInfo,
                senderInfo |-> DecodedStakeInfo,
                factoryInfo |-> DecodedStakeInfo,
                paymasterInfo |-> DecodedStakeInfo,
                storageMap |-> {}])

\* reason: errorData.args.reason of a decoded error, else the reason of the
\* ContractFunctionExecutionError's cause ("undefined" when there is none)
getSimulationResult(errorResult, simulationType) ==
    IF ~errorResult.parses
    THEN IF errorResult.isBaseError
         THEN Throw("SimulateValidation",
                    "UserOperation reverted during simulation with reason: "
                        \o errorResult.reason, FALSE)
         ELSE Throw("Error",
                    "User Operation simulation returned unexpected invalid response", TRUE)
    ELSE IF errorResult.errorName = "FailedOp"
    THEN Throw("SimulateValidation",
               "UserOperation reverted during simulation with reason: "
                   \o errorResult.reason, FALSE)
    ELSE IF simulationType = "validation"
            /\ errorResult.errorName
                  \notin {"ValidationResult", "ValidationResultWithAggregation"}
    THEN Throw("Error", "Unexpected error - errorName is not ValidationResult", FALSE)
    ELSE IF simulationType # "validation" /\ errorResult.errorName # "ExecutionResult"
    THEN Throw("Error", "Unexpected error - errorName is not ExecutionResult", FALSE)
    ELSE Admit([returnInfo |-> errorResult.returnInfo,
                senderInfo |-> DecodedStakeInfo,
                factoryInfo |-> DecodedStakeInfo,
                paymasterInfo |-> DecodedStakeInfo,
                storageMap |-> {}])

\* variant: validUntil only has to lie after now
expirationCheckV06NoMargin(returnInfo, nowMs) ==
    IF returnInfo.validAfter * 1000 > nowMs - 5 * 1000 /\ ~disableExpirationCheck
    THEN "User operation is not valid yet"
    ELSE IF returnInfo.validUntil * 1000 < nowMs /\ ~disableExpirationCheck
    THEN "expires too soon"
    ELSE ""

\* the time window of the v0.6 path: now = Date.now() / 1000, not rounded
expirationCheckV06(returnInfo, nowMs) ==
    IF returnInfo.validAfter * 1000 > nowMs - 5 * 1000 /\ ~disableExpirationCheck
    THEN "User operation is not valid yet"
    ELSE IF returnInfo.validUntil * 1000 < nowMs + 30 * 1000 /\ ~disableExpirationCheck
    THEN "expires too soon"
    ELSE ""

\* variant: the time window is checked before the signature
getValidationResultV06WindowFirst(userOperation, errorResult, nowMs) ==
    IF errorResult.thrownNonError
    THEN Throw("Unknown", "value thrown by simulateValidation", FALSE)
    ELSE
      LET simulation == getSimulationResult(errorResult, "validation")
      IN  IF ~simulation.ok THEN simulation
          ELSE
            LET validationResult == simulation.result
                expired == expirationCheckV06(validationResult.returnInfo, nowMs)
            IN  IF expired # ""
                THEN Throw("ExpiresShortly", expired, FALSE)
                ELSE IF validationResult.returnInfo.sigFailed
                THEN Throw("InvalidSignature",
                           "Invalid UserOp signature or  paymaster signature", FALSE)
                ELSE Admit(validationResult)

getValidationResultV06(userOperation, errorResult, nowMs) ==
    IF errorResult.thrownNonError
    THEN Throw("Unknown", "value thrown by simulateValidation", FALSE)
    ELSE
      LET simulation == getSimulationResult(errorResult, "validation")
      IN  IF ~simulation.ok THEN simulation
          ELSE
            LET validationResult == simulation.result
                expired == expirationCheckV06(validationResult.returnInfo, nowMs)
            IN  IF validationResult.returnInfo.sigFailed
                THEN Throw("InvalidSignature",
                           "Invalid UserOp signature or  paymaster signature", FALSE)
                ELSE IF expired # ""
                THEN Throw("ExpiresShortly", expired, FALSE)
                ELSE Admit(validationResult)

\* the time window of the v0.7 path: now = Math.floor(Date.now() / 1000)
expirationCheckV07(returnInfo, nowMs) ==
    LET nowSec == nowMs \div 1000
    IN  IF returnInfo.validAfter > nowSec - 5
        THEN "User operation is not valid yet"
        ELSE IF returnInfo.validUntil < nowSec + 30
        THEN "UserOperation expires too soon"
        ELSE ""

\* variant: simulateValidation is called whether or not the address is set
simulationCallsV07Always == <<"simulateValidation">>

\* the calls getValidationResultV07 issues: none when the guard on
\* entryPointSimulationsAddress throws
simulationCallsV07 ==
    IF ~entryPointSimulationsAddress THEN <<>> ELSE <<"simulateValidation">>

\* nothing was simulated
NotSimulatedV07 ==
    [thrown |-> FALSE, status |-> "none", reason |-> "",
     returnInfo |-> [preOpGas |-> 0, prefund |-> 0, accountValidationData |-> 0,
                     paymasterValidationData |-> 0],
     hasFactoryInfo |-> FALSE, hasPaymasterInfo |-> FALSE]

getValidationResultV07(userOperation, simulateValidationResult, nowMs) ==
    IF simulationCallsV07 = <<>>
    THEN Throw("Error", "entryPointSimulationsAddress is not set", FALSE)
    ELSE IF simulateValidationResult.thrown
    THEN Throw("Unknown", "error thrown by simulateValidation", FALSE)
    ELSE IF simulateValidationResult.status = "failed"
    THEN Throw("SimulateValidation",
               "UserOperation reverted with reason: "
                   \o simulateValidationResult.reason, FALSE)
    ELSE
      LET validationResult == simulateValidationResult
          mergedValidation ==
              mergeValidationDataValues(
                  validationResult.returnInfo.accountValidationData,
                  validationResult.returnInfo.paymasterValidationData)
          res ==
              [returnInfo |->
                  [preOpGas |-> validationResult.returnInfo.preOpGas,
                   prefund |-> validationResult.returnInfo.prefund,
                   accountValidationData |->
                       validationResult.returnInfo.accountValidationData,
                   paymasterValidationData |->
                       validationResult.returnInfo.paymasterValidationData,
                   accountSigFailed |-> mergedValidation.accountSigFailed,
                   paymasterSigFailed |-> mergedValidation.paymasterSigFailed,
                   validUntil |-> mergedValidation.validUntil,
                   validAfter |-> mergedValidation.validAfter],
               senderInfo |-> [present |-> TRUE, addr |-> userOperation.sender],
               factoryInfo |->
                   IF Truthy(userOperation.factory) /\ validationResult.hasFactoryInfo
                   THEN [present |-> TRUE, addr |-> userOperation.factory]
                   ELSE NoStakeInfo,
               paymasterInfo |->
                   IF Truthy(userOperation.paymaster) /\ validationResult.hasPaymasterInfo
                   THEN [present |-> TRUE, addr |-> userOperation.paymaster]
                   ELSE NoStakeInfo,
               storageMap |-> {}]
          expired == expirationCheckV07(res.returnInfo, nowMs)
      IN  IF res.returnInfo.accountSigFailed
          THEN Throw("InvalidSignature", "Invalid UserOp signature", FALSE)
          ELSE IF res.returnInfo.paymasterSigFailed
          THEN Throw("InvalidSignature", "Invalid UserOp paymasterData", FALSE)
          ELSE IF expired # ""
          THEN Throw("ExpiresShortly", expired, FALSE)
          ELSE Admit(res)

\* variant: each path is entered when the operation has that path's shape
getValidationResultPathsByShape(userOperation) ==
    (IF isVersion06(userOperation) THEN <<"getValidationResultV06">> ELSE <<>>)
    \o (IF isVersion07(userOperation) THEN <<"getValidationResultV07">> ELSE <<>>)

\* the simulation paths getValidationResult enters, in order
getValidationResultPaths(userOperation) ==
    IF isVersion06(userOperation)
    THEN <<"getValidationResultV06">>
    ELSE <<"getValidationResultV07">>

getValidationResult(userOperation, simulation, nowMs) ==
    IF getValidationResultPaths(userOperation) = <<"getValidationResultV06">>
    THEN getValidationResultV06(userOperation, simulation, nowMs)
    ELSE getValidationResultV07(userOperation, simulation, nowMs)

\* validatePreVerificationGas, given what calcPreVerificationGas answers
validatePreVerificationGas(userOperation, preVerificationGas) ==
    IF apiVersion # "v1" /\ preVerificationGas > userOperation.preVerificationGas
    THEN Throw("SimulateValidation", "preVerificationGas is not enough", FALSE)
    ELSE Admit(NoResult)

\* the multiplier of verificationGasLimit in the required prefund
prefundMultiplier(userOperation) ==
    LET mul0 == 1
        mul1 == IF isVersion06(userOperation) /\ Truthy(userOperation.paymasterAndData)
                THEN 3 ELSE mul0
    IN  IF isVersion07(userOperation) /\ userOperation.paymaster = "0x"
        THEN 3 ELSE mul1

requiredPreFund(userOperation, limits) ==
    limits[2] + limits[1] * prefundMultiplier(userOperation)
        + userOperation.preVerificationGas

\* the body of validateUserOperation's try block
validateUserOperation(userOperation, simulation, limits, nowMs) ==
    LET validationResult == getValidationResult(userOperation, simulation, nowMs)
    IN  IF ~validationResult.ok THEN validationResult
        ELSE IF apiVersion # "v1"
                /\ requiredPreFund(userOperation, limits)
                      > validationResult.result.returnInfo.prefund
        THEN Throw("SimulateValidation", "prefund is not enough", FALSE)
        ELSE validationResult

\* variant: a call that throws leaves the counters alone
countValidationSuccessOnly(counters, outcome) ==
    IF outcome.ok
    THEN [counters EXCEPT !.userOperationsValidationSuccess = @ + 1]
    ELSE counters

\* variant: the failure counter is incremented on the success path as well
countValidationAlsoFailure(counters, outcome) ==
    IF outcome.ok
    THEN [counters EXCEPT !.userOperationsValidationSuccess = @ + 1,
                          !.userOperationsValidationFailure = @ + 1]
    ELSE [counters EXCEPT !.userOperationsValidationFailure = @ + 1]

\* the .inc() after the try block's last statement, or the one in the catch block
countValidation(counters, outcome) ==
    IF outcome.ok
    THEN [counters EXCEPT !.userOperationsValidationSuccess = @ + 1]
    ELSE [counters EXCEPT !.userOperationsValidationFailure = @ + 1]

NoValidation ==
    [called |-> FALSE, userOperation |-> [sender |-> NULL], simulation |-> <<>>,
     limits |-> <<0, 0>>, now |-> 0, outcome |-> Throw("", "", FALSE)]

\* public validateUserOperation(userOperation, entryPoint)
ValidateUserOperation ==
    /\ metrics.userOperationsValidationSuccess
          + metrics.userOperationsValidationFailure < MaxCalls
    /\ \E userOperation \in UserOperations :
       \E simulation \in IF isVersion06(userOperation) THEN ErrorResultsV06
                         ELSE IF simulationCallsV07 = <<>> THEN {NotSimulatedV07}
                         ELSE SimulateValidationResultsV07 :
       \E limits \in IF getValidationResult(userOperation, simulation, now).ok
                     THEN GasLimitResults ELSE {<<0, 0>>} :
          LET outcome == validateUserOperation(userOperation, simulation, limits, now)
          IN  /\ metrics' = countValidation(metrics, outcome)
              /\ lastValidation' =
                    [called |-> TRUE, userOperation |-> userOperation,
                     simulation |-> simulation, limits |-> limits, now |-> now,
                     outcome |-> outcome]
    /\ UNCHANGED <<gasVars, now, apiVersion, disableExpirationCheck,
                   entryPointSimulationsAddress, applied>>

----------------------------------------------------------------------------
(* Specifications: the GasPriceManager on its own, the validator on its own *)

\* no helper has been applied
NoApplication == [fn |-> "none", args |-> <<>>, result |-> <<>>]

\* configured gasPriceTimeValidityInSeconds
QueueSizes == 1..MaxQueueSize

\* (chain, noEip1559Support) the manager is constructed with
GasConfigs == {<<polygonMumbai, TRUE>>}

ValidatorIdle ==
    /\ apiVersion = "v2"
    /\ disableExpirationCheck = FALSE
    /\ entryPointSimulationsAddress = TRUE
    /\ metrics = [userOperationsValidationSuccess |-> 0,
                  userOperationsValidationFailure |-> 0]
    /\ lastValidation = NoValidation
    /\ applied = NoApplication

InitGas ==
    /\ \E c \in GasConfigs : chainId = c[1] /\ noEip1559Support = c[2]
    /\ maxQueueSize \in QueueSizes
    /\ queueMaxFeePerGas = <<>>
    /\ queueMaxPriorityFeePerGas = <<>>
    /\ now = StartTime
    /\ observed = {}
    /\ bucketsMaxFee = <<>>
    /\ bucketsMaxPriority = <<>>
    /\ nRecorded = 0
    /\ lastGas = NoGasCall
    /\ suspended = NoneSuspended
    /\ ValidatorIdle

NextGas == GetGasPrice \/ ValidateGasPrice \/ Tick

SpecGas == InitGas /\ [][NextGas]_vars

GasPriceManagerIdle ==
    /\ chainId = goerli
    /\ noEip1559Support = FALSE
    /\ maxQueueSize = 10
    /\ queueMaxFeePerGas = <<>>
    /\ queueMaxPriorityFeePerGas = <<>>
    /\ observed = {}
    /\ bucketsMaxFee = <<>>
    /\ bucketsMaxPriority = <<>>
    /\ nRecorded = 0
    /\ lastGas = NoGasCall
    /\ suspended = NoneSuspended

InitValidator ==
    /\ apiVersion \in {"v1", "v2"}
    /\ disableExpirationCheck \in BOOLEAN
    /\ entryPointSimulationsAddress \in BOOLEAN
    /\ metrics = [userOperationsValidationSuccess |-> 0,
                  userOperationsValidationFailure |-> 0]
    /\ lastValidation = NoValidation
    /\ applied = NoApplication
    /\ now = StartTime
    /\ GasPriceManagerIdle

NextValidator == ValidateUserOperation \/ Tick

SpecValidator == InitValidator /\ [][NextValidator]_vars

\* The GasPriceManager on every chain the code distinguishes, with and
\* without EIP-1559 support, up to its first recording.
Chains ==
    {mainnet, sepolia, celo, celoAlfajores, celoCannoli, arbitrum, arbitrumGoerli,
     scroll, scrollSepolia, mantle, nautilus, base, dfk, avalanche, polygon,
     polygonMumbai, goerli}

InitChains ==
    /\ chainId \in Chains
    /\ noEip1559Support \in BOOLEAN
    /\ maxQueueSize = 10
    /\ queueMaxFeePerGas = <<>>
    /\ queueMaxPriorityFeePerGas = <<>>
    /\ now = StartTime
    /\ observed = {}
    /\ bucketsMaxFee = <<>>
    /\ bucketsMaxPriority = <<>>
    /\ nRecorded = 0
    /\ lastGas = NoGasCall
    /\ suspended = NoneSuspended
    /\ ValidatorIdle

\* getGasPrice calls interleaved at their awaits
NextConcurrent ==
    \/ BeginGetGasPrice
    \/ ResumeAtGasStation
    \/ ResumeAtEstimate
    \/ Tick

SpecConcurrent == InitGas /\ [][NextConcurrent]_vars

\* getGasPrice keeps succeeding, one call at a time, with at least one
\* second (one bucket) between two calls
SteadySteps == {BUCKET_MS, BUCKET_MS + BUCKET_MS \div 2}

SteadyGetGasPrice ==
    /\ lastGas.op = "none"
    /\ GetGasPrice
    /\ lastGas'.ok

SteadyTick ==
    /\ lastGas.op = "getGasPrice"
    /\ \E d \in SteadySteps :
          /\ now + d <= StartTime + MaxTime
          /\ now' = now + d
          /\ observed' = Recent(observed, now + d, maxQueueSize * BUCKET_MS)
    /\ lastGas' = NoGasCall
    /\ UNCHANGED <<chainId, noEip1559Support, maxQueueSize, queueMaxFeePerGas,
                   queueMaxPriorityFeePerGas, bucketsMaxFee, bucketsMaxPriority,
                   nRecorded, suspended, valVars, applied>>

NextSteady == SteadyGetGasPrice \/ SteadyTick

SpecSteady == InitGas /\ [][NextSteady]_vars /\ WF_vars(NextSteady)

\* the first getGasPrice() after construction
FirstGetGasPrice == nRecorded = 0 /\ GetGasPrice

NextChains == FirstGetGasPrice \/ Tick

SpecChains == InitChains /\ [][NextChains]_vars

----------------------------------------------------------------------------
(* The helpers on their own: each behaviour applies one of them once, to   *)
(* arguments drawn from its domain, and records the result.                *)

Application(fn, args, result) == [fn |-> fn, args |-> args, result |-> result]

Addresses == 0 .. (ADDRESS_SPAN - 1)
Uint48s == 0 .. (UINT48_SPAN - 1)

\* parseValidationData on the word the EntryPoint packs from a triple
ParseValidationData ==
    /\ applied = NoApplication
    /\ \E aggregator \in Addresses, validAfter \in Uint48s, validUntil \in Uint48s :
          applied' = Application("parseValidationData",
                         <<aggregator, validAfter, validUntil>>,
                         parseValidationData(
                             packValidationData(aggregator, validUntil, validAfter)))
    /\ UNCHANGED <<gasVars, now, valVars>>

\* parsed validation data handed to mergeValidationData
MergeTimes == {0, 5, 7, UINT48_SPAN - 1}

ValidationDatas ==
    {[aggregator |-> aggregator, validAfter |-> validAfter, validUntil |-> validUntil] :
        aggregator \in Addresses, validAfter \in MergeTimes, validUntil \in MergeTimes}

MergeValidationData ==
    /\ applied = NoApplication
    /\ \E accountValidationData \in ValidationDatas,
          paymasterValidationData \in ValidationDatas :
          applied' = Application("mergeValidationData",
                         <<accountValidationData, paymasterValidationData>>,
                         mergeValidationData(accountValidationData,
                                             paymasterValidationData))
    /\ UNCHANGED <<gasVars, now, valVars>>

\* operations passed to getValidationResult: the two shapes, and objects
\* that carry the fields of both or of neither
DispatchOperations ==
    UserOperations
    \cup {[sender |-> "0xsender", preVerificationGas |-> 1],
          [sender |-> "0xsender", initCode |-> "0x", paymasterAndData |-> "0x",
           factory |-> NULL, paymaster |-> NULL, preVerificationGas |-> 1]}

GetValidationResult ==
    /\ applied = NoApplication
    /\ \E userOperation \in DispatchOperations :
          applied' = Application("getValidationResult", <<userOperation>>,
                                 getValidationResultPaths(userOperation))
    /\ UNCHANGED <<gasVars, now, valVars>>

\* estimates handed to bumpTheGasPrice, in gwei
BumpInputs == {100, 200}

BumpTheGasPrice ==
    /\ applied = NoApplication
    /\ \E chain \in Chains, fee \in BumpInputs, priority \in BumpInputs :
          applied' = Application("bumpTheGasPrice", <<chain, GasPrice(fee, priority)>>,
                         [bumpAmount |-> getBumpAmount(chain),
                          gasPrice |-> bumpTheGasPrice(GasPrice(fee, priority), chain)])
    /\ UNCHANGED <<gasVars, now, valVars>>

\* latest blocks handed to getNextBaseFee: base fee in gwei, gas in millions
NextBaseFeeBlocks ==
    {[baseFeePerGas |-> b, gasUsed |-> u, gasLimit |-> 30] :
        b \in {8, 16, 100}, u \in {0, 5, 15, 20, 30}}

GetNextBaseFee ==
    /\ applied = NoApplication
    /\ \E block \in NextBaseFeeBlocks, gasPriceRpc \in GasPriceResponses :
          applied' = Application("getNextBaseFee", <<block, gasPriceRpc>>,
                                 getNextBaseFee(Returned(block), gasPriceRpc))
    /\ UNCHANGED <<gasVars, now, valVars>>

\* getFeeHistory({blockCount: 10, rewardPercentiles: [20]}) on ten blocks
TenBlockFeeHistory ==
    Returned([hasReward |-> TRUE, reward |-> <<1, 1, 1, 1, 1, 1, 1, 1, 1, 6>>])

\* estimateGasPrice on given answers of the node
EstimateGasPrice ==
    /\ applied = NoApplication
    /\ \E fees \in FeesResponses,
          feeHistory \in FeeHistoryResponses \cup {TenBlockFeeHistory},
          block \in BlockResponses \cup {Returned(b) : b \in NextBaseFeeBlocks},
          gasPriceRpc \in GasPriceResponses :
          applied' = Application("estimateGasPrice",
                         <<fees, feeHistory, block, gasPriceRpc>>,
                         estimateGasPrice(fees, feeHistory, block, gasPriceRpc))
    /\ UNCHANGED <<gasVars, now, valVars>>

\* getGasPrice up to its record step, on given answers of the three sources
GetGasPriceFromSources ==
    /\ applied = NoApplication
    /\ \E chain \in Chains, legacy \in BOOLEAN,
          polygonEstimate \in GasStationResponses,
          legacyFees \in LegacyFeesResponses,
          gasPriceRpc \in GasPriceResponses,
          estimateResult \in EstimateGasPriceResults :
          applied' = Application("getGasPrice",
                         <<chain, legacy, polygonEstimate, legacyFees,
                           gasPriceRpc, estimateResult>>,
                         [sources |-> getGasPriceSources(chain, legacy,
                                                         polygonEstimate),
                          call |-> getGasPrice(chain, legacy, polygonEstimate,
                                       getNoEip1559SupportGasPrice(legacyFees,
                                                                   gasPriceRpc),
                                       estimateResult)])
    /\ UNCHANGED <<gasVars, now, valVars>>

InitHelpers ==
    /\ GasPriceManagerIdle
    /\ ValidatorIdle
    /\ now = StartTime

NextHelpers ==
    \/ ParseValidationData
    \/ MergeValidationData
    \/ GetValidationResult
    \/ BumpTheGasPrice
    \/ GetNextBaseFee
    \/ GetGasPriceFromSources
    \/ EstimateGasPrice

SpecHelpers == InitHelpers /\ [][NextHelpers]_vars

\* The validator in an environment where calcPreVerificationGas answers a
\* fixed amount for the operations submitted.
PreVerificationGasResults == {1, 2}

InitPreVerificationGas ==
    /\ apiVersion \in {"v1", "v2"}
    /\ disableExpirationCheck \in BOOLEAN
    /\ entryPointSimulationsAddress \in BOOLEAN
    /\ metrics = [userOperationsValidationSuccess |-> 0,
                  userOperationsValidationFailure |-> 0]
    /\ lastValidation = NoValidation
    /\ applied \in {Application("calcPreVerificationGas", <<>>, g) :
                        g \in PreVerificationGasResults}
    /\ now = StartTime
    /\ GasPriceManagerIdle

NextPreVerificationGas == ValidateUserOperation \/ Tick

SpecPreVerificationGas == InitPreVerificationGas /\ [][NextPreVerificationGas]_vars

----------------------------------------------------------------------------
(* Properties of the rolling queues and of validateGasPrice *)

SetMin(S) == CHOOSE m \in S : \A x \in S : m <= x

FeePrices == {queueMaxFeePerGas[i].maxFeePerGas : i \in DOMAIN queueMaxFeePerGas}

PriorityPrices ==
    {queueMaxPriorityFeePerGas[i].maxPriorityFeePerGas :
        i \in DOMAIN queueMaxPriorityFeePerGas}

\* the recordings made at most ageMs before the current clock reading
RecordedWithin(ageMs) == {o \in observed : now - o.timestamp <= ageMs}

\* C1: each of the two fee queues holds at most W = maxQueueSize entries.
C1_QueuesBounded ==
    /\ Len(queueMaxFeePerGas) <= maxQueueSize
    /\ Len(queueMaxPriorityFeePerGas) <= maxQueueSize

\* a recording has just pushed onto a full maxFeePerGas queue
C1_Witness ==
    /\ lastGas.op = "getGasPrice"
    /\ lastGas.save.recorded
    /\ lastGas.save.evicted[1]
    /\ lastGas.save.evicted[2]
    /\ maxQueueSize = MaxQueueSize
    /\ Len(queueMaxFeePerGas) = maxQueueSize

\* C2: on non-empty queues validateGasPrice rejects exactly when maxFeePerGas
\* is below the lowest maxFeePerGas entry or maxPriorityFeePerGas is below the
\* lowest maxPriorityFeePerGas entry; a price equal to the minimum passes.
C2_RejectsIffBelowMinimum ==
    (lastGas.op = "validateGasPrice" /\ ~lastGas.fetched)
        => (~lastGas.ok <=>
               \/ lastGas.gasPrice.maxFeePerGas < SetMin(FeePrices)
               \/ lastGas.gasPrice.maxPriorityFeePerGas < SetMin(PriorityPrices))

\* a price equal to the minimum of a queue with two different prices was accepted
C2_Witness ==
    /\ lastGas.op = "validateGasPrice"
    /\ ~lastGas.fetched
    /\ lastGas.ok
    /\ Cardinality(FeePrices) = 2
    /\ lastGas.gasPrice.maxFeePerGas = SetMin(FeePrices)
    /\ lastGas.gasPrice.maxPriorityFeePerGas = SetMin(PriorityPrices)

\* C3: a submission accepted at time t is at least the lowest price recorded
\* during the last W seconds before t, for each fee component.
C3_AcceptedAtLeastRecentMinimum ==
    (lastGas.op = "validateGasPrice" /\ lastGas.ok
        /\ RecordedWithin(maxQueueSize * BUCKET_MS) # {})
        => LET recent == RecordedWithin(maxQueueSize * BUCKET_MS)
           IN  /\ lastGas.gasPrice.maxFeePerGas
                     >= SetMin({o.maxFeePerGas : o \in recent})
               /\ lastGas.gasPrice.maxPriorityFeePerGas
                     >= SetMin({o.maxPriorityFeePerGas : o \in recent})

\* C4: the minimum tracked by a queue is at most every price recorded for
\* that component within the last W - 1 seconds.
C4_TrackedMinimumCoversWindow ==
    \A o \in RecordedWithin((maxQueueSize - 1) * BUCKET_MS) :
        /\ SetMin(FeePrices) <= o.maxFeePerGas
        /\ SetMin(PriorityPrices) <= o.maxPriorityFeePerGas

\* after an eviction, the lowest price of the window is W - 1 seconds old and
\* is still the tracked minimum, below the price of the newest entry
C4_Witness ==
    /\ maxQueueSize = MaxQueueSize
    /\ Len(queueMaxFeePerGas) = maxQueueSize
    /\ bucketsMaxFee[1].created > StartTime
    /\ \E o \in observed :
          /\ now - o.timestamp = (maxQueueSize - 1) * BUCKET_MS
          /\ o.maxFeePerGas = SetMin(FeePrices)
          /\ o.maxFeePerGas < queueMaxFeePerGas[Len(queueMaxFeePerGas)].maxFeePerGas

SubmittedPrices == {GasPrice(f, p) : f \in 0..3, p \in 0..3}

\* C5: validateGasPrice is monotone: on the same queues, every price that is
\* componentwise at least an accepted price is accepted.
C5_ValidateMonotone ==
    (lastGas.op = "validateGasPrice" /\ lastGas.ok)
        => \A p1 \in SubmittedPrices :
              (/\ p1.maxFeePerGas >= lastGas.gasPrice.maxFeePerGas
               /\ p1.maxPriorityFeePerGas >= lastGas.gasPrice.maxPriorityFeePerGas)
                 => validateGasPriceCheck(p1,
                        getMinMaxFeePerGas(queueMaxFeePerGas),
                        getMinMaxPriorityFeePerGas(queueMaxPriorityFeePerGas)) = "ok"

\* a price was accepted while a lower price would have been rejected
C5_Witness ==
    /\ lastGas.op = "validateGasPrice"
    /\ lastGas.ok
    /\ lastGas.gasPrice = GasPrice(2, 2)
    /\ validateGasPriceCheck(GasPrice(1, 1),
           getMinMaxFeePerGas(queueMaxFeePerGas),
           getMinMaxPriorityFeePerGas(queueMaxPriorityFeePerGas)) # "ok"

\* the three cases of recording (gasPrice, timestamp) into the maxFeePerGas queue
ThreeCasesFee(queue, after, gasPrice, timestamp) ==
    IF Len(queue) = 0 \/ timestamp - queue[Len(queue)].timestamp >= 1000
    THEN after = Append(IF Len(queue) = maxQueueSize THEN Tail(queue) ELSE queue,
                        FeeEntry(gasPrice, timestamp))
    ELSE IF gasPrice < queue[Len(queue)].maxFeePerGas
    THEN /\ Len(after) = Len(queue)
         /\ \A i \in 1..(Len(queue) - 1) : after[i] = queue[i]
         /\ after[Len(after)] = FeeEntry(gasPrice, timestamp)
    ELSE after = queue

ThreeCasesPriority(queue, after, gasPrice, timestamp) ==
    IF Len(queue) = 0 \/ timestamp - queue[Len(queue)].timestamp >= 1000
    THEN after = Append(IF Len(queue) = maxQueueSize THEN Tail(queue) ELSE queue,
                        PriorityEntry(gasPrice, timestamp))
    ELSE IF gasPrice < queue[Len(queue)].maxPriorityFeePerGas
    THEN /\ Len(after) = Len(queue)
         /\ \A i \in 1..(Len(queue) - 1) : after[i] = queue[i]
         /\ after[Len(after)] = PriorityEntry(gasPrice, timestamp)
    ELSE after = queue

\* C6: recording (price, t_ms) appends when the queue is empty or
\* t_ms - t_last >= 1000 (dropping the front entry at capacity), else overwrites
\* the tail with (price, t_ms) when price < p_last, else leaves the queue as it is.
C6_RecordingThreeCases ==
    [][lastGas'.save.recorded
         => /\ ThreeCasesFee(queueMaxFeePerGas, queueMaxFeePerGas',
                             lastGas'.saved.maxFeePerGas, now)
            /\ ThreeCasesPriority(queueMaxPriorityFeePerGas,
                                  queueMaxPriorityFeePerGas',
                                  lastGas'.saved.maxPriorityFeePerGas, now)]_vars

\* recording (2, 0), (1, 500), (2, 1500) has left [(1, 500), (2, 1500)]
C6_Witness ==
    /\ nRecorded = 3
    /\ bucketsMaxFee[1].created = StartTime
    /\ queueMaxFeePerGas = <<FeeEntry(1, StartTime + 500), FeeEntry(2, StartTime + 1500)>>

\* C7: every recording coalesced into an entry was made less than 1000 ms after
\* the recording that created the entry, and the entry's price is the lowest
\* of the recordings coalesced into it.
C7_EntryIsOneSecondBucket ==
    /\ \A i \in DOMAIN queueMaxFeePerGas :
          /\ bucketsMaxFee[i].lastSeen - bucketsMaxFee[i].created < 1000
          /\ queueMaxFeePerGas[i].maxFeePerGas = bucketsMaxFee[i].minSeen
    /\ \A i \in DOMAIN queueMaxPriorityFeePerGas :
          /\ bucketsMaxPriority[i].lastSeen - bucketsMaxPriority[i].created < 1000
          /\ queueMaxPriorityFeePerGas[i].maxPriorityFeePerGas
                = bucketsMaxPriority[i].minSeen

----------------------------------------------------------------------------
(* Properties of validateUserOperation *)

Admitted == lastValidation.called /\ lastValidation.outcome.ok

AdmittedReturnInfo == lastValidation.outcome.result.returnInfo

\* the wall-clock second at which the validation ran
NowSecond == lastValidation.now \div 1000

\* C8: with expiration checking enabled, an admitted operation (v0.6 or v0.7)
\* has validAfter <= now - 5 and validUntil >= now + 30.
C8_AdmittedInsideTimeWindow ==
    (Admitted /\ ~disableExpirationCheck)
        => /\ AdmittedReturnInfo.validAfter <= NowSecond - 5
           /\ AdmittedReturnInfo.validUntil >= NowSecond + 30

\* a v0.6 operation admitted in the middle of a second, with validUntil a
\* little more than 30 s ahead
C8_Witness ==
    /\ Admitted
    /\ ~disableExpirationCheck
    /\ isVersion06(lastValidation.userOperation)
    /\ lastValidation.now % 1000 = 500
    /\ AdmittedReturnInfo.validUntil = 41
    /\ AdmittedReturnInfo.validUntil < NowSecond + 30 + 2

\* the simulation ran and reported a failed signature
ReportsSigFailed ==
    /\ lastValidation.called
    /\ IF isVersion06(lastValidation.userOperation)
       THEN /\ ~lastValidation.simulation.thrownNonError
            /\ lastValidation.simulation.parses
            /\ lastValidation.simulation.errorName
                  \in {"ValidationResult", "ValidationResultWithAggregation"}
            /\ lastValidation.simulation.returnInfo.sigFailed
       ELSE /\ entryPointSimulationsAddress
            /\ ~lastValidation.simulation.thrown
            /\ lastValidation.simulation.status = "validation"
            /\ \/ lastValidation.simulation.returnInfo.accountValidationData
                     % ADDRESS_SPAN # 0
               \/ lastValidation.simulation.returnInfo.paymasterValidationData
                     % ADDRESS_SPAN # 0

\* C9: an operation whose simulation reports a failed signature (v0.6
\* sigFailed, v0.7 accountSigFailed or paymasterSigFailed) ends with an
\* InvalidSignature error, and every admitted result has its flags false.
C9_SigFailedNeverAdmitted ==
    /\ ReportsSigFailed
          => /\ ~lastValidation.outcome.ok
             /\ lastValidation.outcome.code = "InvalidSignature"
    /\ Admitted
          => IF isVersion06(lastValidation.userOperation)
             THEN ~AdmittedReturnInfo.sigFailed
             ELSE /\ ~AdmittedReturnInfo.accountSigFailed
                  /\ ~AdmittedReturnInfo.paymasterSigFailed

\* a v0.7 operation whose paymaster signature alone failed was rejected
C9_Witness ==
    /\ ReportsSigFailed
    /\ isVersion07(lastValidation.userOperation)
    /\ lastValidation.simulation.returnInfo.accountValidationData % ADDRESS_SPAN = 0
    /\ lastValidation.outcome.code = "InvalidSignature"
    /\ lastValidation.outcome.message = "Invalid UserOp paymasterData"

\* the operation declares a paymaster
DeclaresPaymaster(userOperation) ==
    IF isVersion06(userOperation)
    THEN userOperation.paymasterAndData \notin {"", "0x", NULL}
    ELSE userOperation.paymaster \notin {"", "0x", NULL}

\* callGasLimit + m * verificationGasLimit + preVerificationGas
PrefundNeeded(userOperation, limits) ==
    limits[2]
      + (IF DeclaresPaymaster(userOperation) THEN 3 ELSE 1) * limits[1]
      + userOperation.preVerificationGas

\* C10: an admitted operation (any API version, v0.6 or v0.7) has
\* prefund >= callGasLimit + m * verificationGasLimit + preVerificationGas with
\* m = 3 when it declares a paymaster and m = 1 otherwise; an operation with a
\* paymaster whose prefund covers less is rejected with SimulateValidation.
C10_AdmittedPrefundCoversRequired ==
    /\ Admitted
          => AdmittedReturnInfo.prefund
                >= PrefundNeeded(lastValidation.userOperation, lastValidation.limits)
    /\ (/\ lastValidation.called
        /\ DeclaresPaymaster(lastValidation.userOperation)
        /\ getValidationResult(lastValidation.userOperation,
                               lastValidation.simulation, lastValidation.now).ok
        /\ getValidationResult(lastValidation.userOperation,
                               lastValidation.simulation,
                               lastValidation.now).result.returnInfo.prefund
              < PrefundNeeded(lastValidation.userOperation, lastValidation.limits))
          => /\ ~lastValidation.outcome.ok
             /\ lastValidation.outcome.code = "SimulateValidation"

\* C11: with disableExpirationCheck configured true, no operation of either
\* version is rejected with ExpiresShortly, whatever its validAfter / validUntil.
C11_DisabledNeverExpires ==
    (lastValidation.called /\ disableExpirationCheck)
        => lastValidation.outcome.code # "ExpiresShortly"

\* C12: every completed validateUserOperation call increments exactly one of
\* the two counters by one: userOperationsValidationSuccess iff it returns an
\* admission, userOperationsValidationFailure iff it throws; an error thrown
\* by getValidationResult reaches the caller unchanged.
C12_ExactlyOneCounter ==
    [][(lastValidation'.called
        /\ (metrics' # metrics \/ lastValidation' # lastValidation))
         => LET outcome == lastValidation'.outcome
                inner == getValidationResult(lastValidation'.userOperation,
                                             lastValidation'.simulation,
                                             lastValidation'.now)
                success == metrics.userOperationsValidationSuccess
                failure == metrics.userOperationsValidationFailure
            IN  /\ outcome.ok
                     => /\ metrics'.userOperationsValidationSuccess = success + 1
                        /\ metrics'.userOperationsValidationFailure = failure
                /\ ~outcome.ok
                     => /\ metrics'.userOperationsValidationFailure = failure + 1
                        /\ metrics'.userOperationsValidationSuccess = success
                /\ ~inner.ok => outcome = inner]_vars

\* one call admitted its operation: only the success counter moved
C12_Witness ==
    /\ Admitted
    /\ metrics.userOperationsValidationSuccess = 1
    /\ metrics.userOperationsValidationFailure = 0

----------------------------------------------------------------------------
(* Properties of getGasPrice across chains *)

\* the chain's floor for both fee components, in gwei
FloorOf(chain) == IF chain = dfk THEN 5 ELSE 0

\* C13: on every chain and on each estimation path, both components of the
\* value getGasPrice returns are at least the chain's floor (DFK 5 gwei, else 0).
C13_ReturnedAtLeastFloor ==
    (lastGas.op = "getGasPrice" /\ lastGas.ok)
        => /\ lastGas.gasPrice.maxFeePerGas >= FloorOf(chainId)
           /\ lastGas.gasPrice.maxPriorityFeePerGas >= FloorOf(chainId)

----------------------------------------------------------------------------
(* Properties of the helpers *)

\* C14: parseValidationData of the packed word (validAfter in bytes [0..6),
\* validUntil in bytes [6..12), aggregator in bytes [12..32)) returns the
\* packed triple, except that validUntil = 0 comes back as 2^48 - 1.
C14_CodecRoundTrip ==
    applied.fn = "parseValidationData"
        => /\ applied.result.aggregator = applied.args[1]
           /\ applied.result.validAfter = applied.args[2]
           /\ applied.result.validUntil =
                 IF applied.args[3] = 0 THEN UINT48_SPAN - 1 ELSE applied.args[3]

\* a triple with the largest aggregator and validAfter and validUntil = 0
C14_Witness ==
    /\ applied.fn = "parseValidationData"
    /\ applied.args = <<ADDRESS_SPAN - 1, UINT48_SPAN - 1, 0>>
    /\ applied.result.validUntil = UINT48_SPAN - 1
    /\ applied.result.validAfter = UINT48_SPAN - 1

\* C15: mergeValidationData(account, paymaster) returns the later validAfter,
\* the earlier validUntil, accountSigFailed = (account.aggregator # zero
\* address) and paymasterSigFailed = (paymaster.aggregator # zero address).
C15_MergeIsMaxMin ==
    applied.fn = "mergeValidationData"
        => LET account == applied.args[1]
               paymaster == applied.args[2]
               merged == applied.result
           IN  /\ merged.validAfter \in {account.validAfter, paymaster.validAfter}
               /\ merged.validAfter >= account.validAfter
               /\ merged.validAfter >= paymaster.validAfter
               /\ merged.validUntil \in {account.validUntil, paymaster.validUntil}
               /\ merged.validUntil <= account.validUntil
               /\ merged.validUntil <= paymaster.validUntil
               /\ merged.accountSigFailed <=> account.aggregator # 0
               /\ merged.paymasterSigFailed <=> paymaster.aggregator # 0

\* the paymaster's window starts and ends later than the account's, and only
\* the paymaster names an aggregator
C15_Witness ==
    /\ applied.fn = "mergeValidationData"
    /\ applied.args[1].validAfter < applied.args[2].validAfter
    /\ applied.args[1].validUntil < applied.args[2].validUntil
    /\ applied.args[1].aggregator = 0
    /\ applied.args[2].aggregator # 0
    /\ applied.result.paymasterSigFailed
    /\ ~applied.result.accountSigFailed
    /\ applied.result.validUntil = applied.args[1].validUntil

\* C16: every operation passed to getValidationResult is simulated by exactly
\* one of the v0.6 and the v0.7 path, the v0.6 path exactly when it carries
\* initCode and paymasterAndData.
C16_DispatchTotalExclusive ==
    applied.fn = "getValidationResult"
        => LET userOperation == applied.args[1]
               carriesV06 == /\ "initCode" \in DOMAIN userOperation
                             /\ "paymasterAndData" \in DOMAIN userOperation
           IN  /\ Len(applied.result) = 1
               /\ applied.result[1]
                     = IF carriesV06 THEN "getValidationResultV06"
                                     ELSE "getValidationResultV07"

\* an object with the fields of both shapes went down the v0.6 path only
C16_Witness ==
    /\ applied.fn = "getValidationResult"
    /\ {"initCode", "paymasterAndData", "factory", "paymaster"}
          \subseteq DOMAIN applied.args[1]
    /\ applied.result = <<"getValidationResultV06">>

\* the bump percentage of a chain: Sepolia 120, the Celo family 150, the
\* other listed chains 111, any other chain 100
BumpPercentage(chain) ==
    IF chain = sepolia THEN 120
    ELSE IF chain \in {celo, celoAlfajores, celoCannoli} THEN 150
    ELSE IF chain \in {mainnet, arbitrum, arbitrumGoerli, scroll, scrollSepolia,
                       mantle, nautilus, base, dfk, avalanche} THEN 111
    ELSE 100

\* C17: the bump applied to an estimate is 120% on Sepolia, 150% on Celo, Celo
\* Alfajores and Celo Cannoli, 111% on the other listed chains and 100% on
\* any chain not listed.
C17_BumpPercentages ==
    applied.fn = "bumpTheGasPrice"
        => LET chain == applied.args[1]
               estimate == applied.args[2]
               highest == IF estimate.maxFeePerGas >= estimate.maxPriorityFeePerGas
                          THEN estimate.maxFeePerGas
                          ELSE estimate.maxPriorityFeePerGas
           IN  /\ applied.result.bumpAmount = BumpPercentage(chain)
               /\ applied.result.gasPrice.maxFeePerGas
                     = (highest * BumpPercentage(chain)) \div 100

\* the projection of the next base fee from a block, target = gasLimit / 2
ProjectedBaseFee(block) ==
    LET baseFee == block.baseFeePerGas
        target == block.gasLimit \div 2
        over == ((baseFee * (block.gasUsed - target)) \div target) \div 8
        under == ((baseFee * (target - block.gasUsed)) \div target) \div 8
    IN  IF block.gasUsed = target THEN baseFee
        ELSE IF block.gasUsed > target THEN baseFee + (IF over >= 1 THEN over ELSE 1)
        ELSE baseFee - under

\* C18: getNextBaseFee returns base when gasUsed = target, base +
\* max(base*(gasUsed-target)/target/8, 1) when gasUsed > target and base -
\* base*(target-gasUsed)/target/8 when gasUsed < target; under target the
\* result never exceeds base and never goes below 0.
C18_NextBaseFeeProjection ==
    applied.fn = "getNextBaseFee"
        => LET block == applied.args[1]
           IN  /\ applied.result.ok
               /\ applied.result.value = ProjectedBaseFee(block)
               /\ block.gasUsed < block.gasLimit \div 2
                     => /\ applied.result.value <= block.baseFeePerGas
                        /\ applied.result.value >= 0

----------------------------------------------------------------------------
(* Properties of validateUserOperation and the preVerificationGas check *)

\* C19: under an API version other than "v1", an operation whose computed
\* minimum preVerificationGas exceeds its declared preVerificationGas is
\* rejected with SimulateValidation, so every admitted operation has
\* computed <= declared; under "v1" the check never rejects.
C19_AdmittedCoversPreVerificationGas ==
    LET computed == applied.result
        check == validatePreVerificationGas(lastValidation.userOperation, computed)
    IN  lastValidation.called
          => /\ apiVersion = "v1" => check.ok
             /\ (apiVersion # "v1"
                 /\ computed > lastValidation.userOperation.preVerificationGas)
                   => /\ ~check.ok
                      /\ check.code = "SimulateValidation"
                      /\ ~lastValidation.outcome.ok
             /\ (apiVersion # "v1" /\ lastValidation.outcome.ok)
                   => computed <= lastValidation.userOperation.preVerificationGas

\* C20: under an API version other than "v1", an operation that declares no
\* paymaster (v0.6 paymasterAndData "0x", v0.7 no paymaster) and whose prefund
\* is exactly callGasLimit + verificationGasLimit + preVerificationGas is not
\* rejected by the prefund check.
C20_NoPaymasterMultiplierOne ==
    LET userOperation == lastValidation.userOperation
        inner == getValidationResult(userOperation, lastValidation.simulation,
                                     lastValidation.now)
    IN  (/\ lastValidation.called
         /\ apiVersion # "v1"
         /\ ~DeclaresPaymaster(userOperation)
         /\ inner.ok
         /\ inner.result.returnInfo.prefund
               = lastValidation.limits[2] + lastValidation.limits[1]
                   + userOperation.preVerificationGas)
          => lastValidation.outcome.ok

----------------------------------------------------------------------------
(* Properties of the order and the outcomes of the validator's checks *)

\* the simulation ran and returned a validation result
SimulationValidated ==
    /\ lastValidation.called
    /\ IF isVersion06(lastValidation.userOperation)
       THEN /\ ~lastValidation.simulation.thrownNonError
            /\ lastValidation.simulation.parses
            /\ lastValidation.simulation.errorName
                  \in {"ValidationResult", "ValidationResultWithAggregation"}
       ELSE /\ entryPointSimulationsAddress
            /\ ~lastValidation.simulation.thrown
            /\ lastValidation.simulation.status = "validation"

\* validAfter / validUntil of a validationData word
WordValidAfter(word) == word \div (ADDRESS_SPAN * UINT48_SPAN)
WordValidUntil(word) ==
    IF (word \div ADDRESS_SPAN) % UINT48_SPAN = 0
    THEN UINT48_SPAN - 1 ELSE (word \div ADDRESS_SPAN) % UINT48_SPAN

\* the window the simulation reported
SimulatedValidAfter ==
    LET info == lastValidation.simulation.returnInfo
    IN  IF isVersion06(lastValidation.userOperation) THEN info.validAfter
        ELSE IF WordValidAfter(info.accountValidationData)
                   >= WordValidAfter(info.paymasterValidationData)
        THEN WordValidAfter(info.accountValidationData)
        ELSE WordValidAfter(info.paymasterValidationData)

SimulatedValidUntil ==
    LET info == lastValidation.simulation.returnInfo
    IN  IF isVersion06(lastValidation.userOperation) THEN info.validUntil
        ELSE IF WordValidUntil(info.accountValidationData)
                   <= WordValidUntil(info.paymasterValidationData)
        THEN WordValidUntil(info.accountValidationData)
        ELSE WordValidUntil(info.paymasterValidationData)

\* the reported window fails against the whole second of the call
WindowFails ==
    /\ SimulationValidated
    /\ \/ SimulatedValidAfter > NowSecond - 5
       \/ SimulatedValidUntil < NowSecond + 30

\* C21: the checks run in the order simulation, signature, time window,
\* prefund and the first failing one determines the error: signature and
\* window both failing gives InvalidSignature, a failing window with a good
\* signature gives ExpiresShortly whatever the prefund, and in v0.7 account
\* and paymaster signature both failing gives the account message.
C21_FirstFailingCheckDecides ==
    /\ (ReportsSigFailed /\ WindowFails)
          => lastValidation.outcome.code = "InvalidSignature"
    /\ (WindowFails /\ ~ReportsSigFailed /\ ~disableExpirationCheck)
          => lastValidation.outcome.code = "ExpiresShortly"
    /\ (/\ ReportsSigFailed
        /\ isVersion07(lastValidation.userOperation)
        /\ lastValidation.simulation.returnInfo.accountValidationData
              % ADDRESS_SPAN # 0
        /\ lastValidation.simulation.returnInfo.paymasterValidationData
              % ADDRESS_SPAN # 0)
          => lastValidation.outcome.message = "Invalid UserOp signature"

\* a v0.6 operation failed the signature and the window and was rejected for
\* its signature
C21_Witness ==
    /\ ReportsSigFailed
    /\ WindowFails
    /\ ~disableExpirationCheck
    /\ isVersion06(lastValidation.userOperation)
    /\ lastValidation.outcome.code = "InvalidSignature"

\* C22: the time-window decision is taken in whole seconds on both paths: an
\* operation whose simulation validated and whose signature is good is
\* rejected with ExpiresShortly exactly when validAfter > floor(now) - 5 or
\* validUntil < floor(now) + 30, the same for a v0.6 and a v0.7 operation.
C22_WindowDecidedInWholeSeconds ==
    (SimulationValidated /\ ~ReportsSigFailed /\ ~disableExpirationCheck)
        => ((lastValidation.outcome.code = "ExpiresShortly") = WindowFails)

\* the last call was for a v0.6 operation and simulateValidation's promise
\* settled with an Error
SimulatedV06 ==
    /\ lastValidation.called
    /\ isVersion06(lastValidation.userOperation)
    /\ ~lastValidation.simulation.thrownNonError

\* the call went on past getSimulationResult
SimulationResultReturned ==
    \/ lastValidation.outcome.ok
    \/ lastValidation.outcome.code \in {"InvalidSignature", "ExpiresShortly"}
    \/ lastValidation.outcome.message = "prefund is not enough"

\* C23: in the v0.6 path a revert decoded as FailedOp(opIndex, reason) fails
\* with SimulateValidation and a message carrying the reason, and only a revert
\* decoded as ValidationResult or ValidationResultWithAggregation has its
\* arguments returned as the simulation result.
C23_FailedOpFailsOnlyValidationResultReturns ==
    SimulatedV06 =>
        /\ (lastValidation.simulation.parses
               /\ lastValidation.simulation.errorName = "FailedOp")
              => /\ ~lastValidation.outcome.ok
                 /\ lastValidation.outcome.code = "SimulateValidation"
                 /\ lastValidation.outcome.message =
                       "UserOperation reverted during simulation with reason: "
                           \o lastValidation.simulation.reason
        /\ SimulationResultReturned
              => /\ lastValidation.simulation.parses
                 /\ lastValidation.simulation.errorName
                       \in {"ValidationResult", "ValidationResultWithAggregation"}
        /\ lastValidation.outcome.ok
              => lastValidation.outcome.result.returnInfo
                    = lastValidation.simulation.returnInfo

\* a FailedOp revert was simulated and the call failed with its reason
C23_Witness ==
    /\ SimulatedV06
    /\ lastValidation.simulation.parses
    /\ lastValidation.simulation.errorName = "FailedOp"
    /\ lastValidation.outcome.code = "SimulateValidation"
    /\ lastValidation.outcome.message =
          "UserOperation reverted during simulation with reason: AA25 invalid account nonce"

\* simulateValidation of the v0.6 operation of this step ended with anything
\* but a ValidationResult / ValidationResultWithAggregation revert
NotValidationResult(simulation) ==
    \/ simulation.thrownNonError
    \/ ~simulation.parses
    \/ simulation.errorName
          \notin {"ValidationResult", "ValidationResultWithAggregation"}

\* C24: a v0.6 simulateValidation that does not revert, or reverts with
\* anything but ValidationResult / ValidationResultWithAggregation (undecodable
\* payload, transport error, another error name), is never admitted:
\* validateUserOperation throws and the failure counter is incremented.
C24_OnlyValidationResultAdmits ==
    [][(/\ lastValidation'.called
        /\ (metrics' # metrics \/ lastValidation' # lastValidation)
        /\ isVersion06(lastValidation'.userOperation)
        /\ NotValidationResult(lastValidation'.simulation))
         => /\ ~lastValidation'.outcome.ok
            /\ lastValidation'.outcome.code
                  \in {"SimulateValidation", "Error", "Unknown"}
            /\ metrics'.userOperationsValidationFailure
                  = metrics.userOperationsValidationFailure + 1
            /\ metrics'.userOperationsValidationSuccess
                  = metrics.userOperationsValidationSuccess]_vars

\* simulateValidation did not yield a decodable error nor a BaseError; the
\* call threw and counted one failure
C24_Witness ==
    /\ SimulatedV06
    /\ ~lastValidation.simulation.parses
    /\ ~lastValidation.simulation.isBaseError
    /\ lastValidation.outcome.code = "Error"
    /\ metrics.userOperationsValidationFailure = 1
    /\ metrics.userOperationsValidationSuccess = 0

\* C25: an infrastructural failure of validation (transport error,
\* undecodable simulation response, unexpected error name) is reported to the
\* telemetry sink before the error is surfaced to the caller.
C25_InfrastructuralFailureReported ==
    (/\ SimulatedV06
     /\ NotValidationResult(lastValidation.simulation)
     /\ ~(lastValidation.simulation.parses
             /\ lastValidation.simulation.errorName = "FailedOp"))
        => /\ ~lastValidation.outcome.ok
           /\ lastValidation.outcome.sentry

\* C26: in the v0.7 path a simulation with status "failed" ends validation
\* with SimulateValidation and a message carrying the reason; when
\* entryPointSimulationsAddress is not configured validation fails before any
\* simulation call is issued; no admission in either case.
C26_FailedSimulationAndMissingAddress ==
    (lastValidation.called /\ isVersion07(lastValidation.userOperation)) =>
        /\ (/\ entryPointSimulationsAddress
            /\ ~lastValidation.simulation.thrown
            /\ lastValidation.simulation.status = "failed")
              => /\ ~lastValidation.outcome.ok
                 /\ lastValidation.outcome.code = "SimulateValidation"
                 /\ lastValidation.outcome.message =
                       "UserOperation reverted with reason: "
                           \o lastValidation.simulation.reason
        /\ ~entryPointSimulationsAddress
              => /\ ~lastValidation.outcome.ok
                 /\ lastValidation.outcome.code = "Error"
                 /\ lastValidation.outcome.message
                       = "entryPointSimulationsAddress is not set"
                 /\ lastValidation.simulation = NotSimulatedV07

\* a v0.7 call without the simulations address failed without simulating
C26_Witness ==
    /\ lastValidation.called
    /\ isVersion07(lastValidation.userOperation)
    /\ ~entryPointSimulationsAddress
    /\ lastValidation.simulation.status = "none"
    /\ lastValidation.outcome.code = "Error"
    /\ metrics.userOperationsValidationFailure = 1

\* the factory / paymaster address an operation declares, NULL for none
DeclaredFactory(userOperation) ==
    IF isVersion06(userOperation)
    THEN IF userOperation.initCode \in {"", "0x", NULL}
         THEN NULL ELSE userOperation.initCode
    ELSE IF Truthy(userOperation.factory) THEN userOperation.factory ELSE NULL

DeclaredPaymaster(userOperation) ==
    IF isVersion06(userOperation)
    THEN IF userOperation.paymasterAndData \in {"", "0x", NULL}
         THEN NULL ELSE userOperation.paymasterAndData
    ELSE IF Truthy(userOperation.paymaster) THEN userOperation.paymaster ELSE NULL

\* C27: every admission (v0.6 and v0.7) carries an empty storageMap and a
\* normalized record: senderInfo.addr is the operation's sender, factoryInfo
\* is present, with the operation's factory as addr, only if the operation
\* declares a factory, and likewise paymasterInfo for the paymaster.
C27_AdmissionNormalized ==
    Admitted =>
        LET result == lastValidation.outcome.result
            userOperation == lastValidation.userOperation
        IN  /\ result.storageMap = {}
            /\ result.senderInfo.addr = userOperation.sender
            /\ result.factoryInfo.present
                  => /\ DeclaredFactory(userOperation) # NULL
                     /\ result.factoryInfo.addr = DeclaredFactory(userOperation)
            /\ result.paymasterInfo.present
                  => /\ DeclaredPaymaster(userOperation) # NULL
                     /\ result.paymasterInfo.addr = DeclaredPaymaster(userOperation)

\* the aggregator field (low bits) of a validationData word
WordAggregator(word) == word % ADDRESS_SPAN

\* C28: in the v0.7 path any non-zero aggregator in the account or paymaster
\* validationData, the marker 1 as well as a genuine aggregator address, makes
\* the call end with InvalidSignature; such an operation is never admitted.
C28_NonZeroAggregatorRejected ==
    (/\ SimulationValidated
     /\ isVersion07(lastValidation.userOperation)
     /\ \/ WordAggregator(
              lastValidation.simulation.returnInfo.accountValidationData) # 0
        \/ WordAggregator(
              lastValidation.simulation.returnInfo.paymasterValidationData) # 0)
        => /\ ~lastValidation.outcome.ok
           /\ lastValidation.outcome.code = "InvalidSignature"

\* an account validationData naming the aggregator address 2 was rejected
C28_Witness ==
    /\ SimulationValidated
    /\ isVersion07(lastValidation.userOperation)
    /\ WordAggregator(
          lastValidation.simulation.returnInfo.accountValidationData) = 2
    /\ WordAggregator(
          lastValidation.simulation.returnInfo.paymasterValidationData) = 0
    /\ lastValidation.outcome.code = "InvalidSignature"

----------------------------------------------------------------------------
(* Properties of the two queues taken together *)

\* C29: the two fee queues move in lock-step: after any sequence of
\* getGasPrice recordings queueMaxFeePerGas and queueMaxPriorityFeePerGas have
\* the same number of entries and the same entry timestamps.
C29_QueuesInLockStep ==
    /\ Len(queueMaxFeePerGas) = Len(queueMaxPriorityFeePerGas)
    /\ \A i \in DOMAIN queueMaxFeePerGas \cap DOMAIN queueMaxPriorityFeePerGas :
          queueMaxFeePerGas[i].timestamp = queueMaxPriorityFeePerGas[i].timestamp

\* C30: on every chain and estimation path, the price pair a getGasPrice
\* call returns is accepted by validateGasPrice when it is submitted right
\* after the call, before anything else is recorded.
C30_ReturnedPriceAccepted ==
    (lastGas.op = "getGasPrice" /\ lastGas.ok)
        => /\ Len(queueMaxFeePerGas) > 0
           /\ Len(queueMaxPriorityFeePerGas) > 0
           /\ validateGasPriceCheck(
                  lastGas.gasPrice,
                  getMinMaxFeePerGas(queueMaxFeePerGas),
                  getMinMaxPriorityFeePerGas(queueMaxPriorityFeePerGas)) = "ok"

----------------------------------------------------------------------------
(* Properties of the values getGasPrice returns and of its estimation paths *)

CeloFamily == {celo, celoAlfajores, celoCannoli}

\* the larger of the two fees of an estimate once each is bumped by the
\* chain's percentage
LargerBumpedFee(estimate, chain) ==
    LET priority == IF estimate.maxPriorityFeePerGas >= getDefaultGasFee(chain)
                    THEN estimate.maxPriorityFeePerGas ELSE getDefaultGasFee(chain)
        fee == IF estimate.maxFeePerGas >= priority
               THEN estimate.maxFeePerGas ELSE priority
        bumpedFee == (fee * getBumpAmount(chain)) \div 100
        bumpedPriority == (priority * getBumpAmount(chain)) \div 100
    IN  IF bumpedFee >= bumpedPriority THEN bumpedFee ELSE bumpedPriority

\* C31: every value getGasPrice returns has maxFeePerGas >=
\* maxPriorityFeePerGas; on the Celo family the two returned components are
\* equal, and equal to the larger of the two bumped fees.
C31_FeeCoversPriority ==
    /\ (lastGas.op = "getGasPrice" /\ lastGas.ok)
          => /\ lastGas.gasPrice.maxFeePerGas >= lastGas.gasPrice.maxPriorityFeePerGas
             /\ chainId \in CeloFamily
                   => lastGas.gasPrice.maxFeePerGas
                         = lastGas.gasPrice.maxPriorityFeePerGas
    /\ chainId \in CeloFamily
          => \A fee \in FeeValues \cup BumpInputs,
                priority \in FeeValues \cup BumpInputs :
                bumpTheGasPrice(GasPrice(fee, priority), chainId)
                   = GasPrice(LargerBumpedFee(GasPrice(fee, priority), chainId),
                              LargerBumpedFee(GasPrice(fee, priority), chainId))

\* getGasPrice on Celo returned 3 gwei, the 150% of 2 gwei, in both components
C31_Witness ==
    /\ lastGas.op = "getGasPrice"
    /\ lastGas.ok
    /\ chainId = celo
    /\ lastGas.gasPrice = GasPrice(3, 3)

----------------------------------------------------------------------------
(* Properties of concurrent getGasPrice calls *)

\* timestamps of a queue increase from front to back, at least 1000 ms apart
SpacedTimestamps(queue) ==
    \A i \in 1 .. (Len(queue) - 1) :
        queue[i + 1].timestamp - queue[i].timestamp >= 1000

\* C32: under any interleaving of getGasPrice calls at their awaits (the
\* record step atomic, its timestamp taken when it runs from a clock that
\* does not go back) each queue's timestamps are strictly increasing with
\* consecutive entries at least 1000 ms apart, and no queue exceeds W.
C32_ConcurrentRecordingSafe ==
    /\ SpacedTimestamps(queueMaxFeePerGas)
    /\ SpacedTimestamps(queueMaxPriorityFeePerGas)
    /\ Len(queueMaxFeePerGas) <= maxQueueSize
    /\ Len(queueMaxPriorityFeePerGas) <= maxQueueSize

\* a call pushed the second entry of both queues while another call, begun
\* before it, is still suspended
C32_Witness ==
    /\ lastGas.op = "getGasPrice"
    /\ lastGas.save.did = <<"push", "push">>
    /\ Len(queueMaxFeePerGas) = 2
    /\ Len(queueMaxPriorityFeePerGas) = 2
    /\ suspended.gasStation + suspended.estimate > 0

----------------------------------------------------------------------------
(* Properties of the calls that read and that write the queues *)

\* C33: validateGasPrice only reads the queues: with both queues non-empty a
\* call, accepting or rejecting, leaves both queues unchanged and fetches no
\* gas price; a queue changes only in a step in which getGasPrice recorded.
C33_ValidateOnlyReads ==
    [][/\ (/\ lastGas'.op = "validateGasPrice"
           /\ Len(queueMaxFeePerGas) > 0
           /\ Len(queueMaxPriorityFeePerGas) > 0)
            => /\ queueMaxFeePerGas' = queueMaxFeePerGas
               /\ queueMaxPriorityFeePerGas' = queueMaxPriorityFeePerGas
               /\ nRecorded' = nRecorded
               /\ ~lastGas'.fetched
       /\ (\/ queueMaxFeePerGas' # queueMaxFeePerGas
           \/ queueMaxPriorityFeePerGas' # queueMaxPriorityFeePerGas)
            => /\ lastGas'.fetched
               /\ lastGas'.save.recorded
               /\ nRecorded' = nRecorded + 1]_vars

\* a submission was rejected against warm queues without any fetch
C33_Witness ==
    /\ lastGas.op = "validateGasPrice"
    /\ ~lastGas.ok
    /\ lastGas.error = "maxFeePerGas must be at least"
    /\ ~lastGas.fetched
    /\ nRecorded = 1
    /\ Len(queueMaxFeePerGas) = 1

\* C34: validateGasPrice on an empty queue calls getGasPrice first and
\* validates against the entry that call records; it never takes a minimum
\* over an empty queue; when the priming call throws, the error is surfaced,
\* nothing is recorded and the submission is not accepted.
C34_ColdQueuesPrimed ==
    [][(lastGas'.op = "validateGasPrice" /\ Len(queueMaxFeePerGas) = 0)
        => /\ lastGas'.fetched
           /\ IF lastGas'.error = "thrown"
              THEN /\ ~lastGas'.ok
                   /\ queueMaxFeePerGas' = <<>>
                   /\ queueMaxPriorityFeePerGas' = <<>>
                   /\ nRecorded' = nRecorded
              ELSE /\ nRecorded' = nRecorded + 1
                   /\ queueMaxFeePerGas'
                         = <<[maxFeePerGas |-> lastGas'.saved.maxFeePerGas,
                              timestamp |-> now]>>
                   /\ queueMaxPriorityFeePerGas'
                         = <<[maxPriorityFeePerGas |->
                                  lastGas'.saved.maxPriorityFeePerGas,
                              timestamp |-> now]>>
                   /\ lastGas'.lowestMaxFeePerGas = lastGas'.saved.maxFeePerGas
                   /\ lastGas'.lowestMaxPriorityFeePerGas
                         = lastGas'.saved.maxPriorityFeePerGas
                   /\ lastGas'.ok
                         = (/\ lastGas'.gasPrice.maxFeePerGas
                                  >= lastGas'.saved.maxFeePerGas
                            /\ lastGas'.gasPrice.maxPriorityFeePerGas
                                  >= lastGas'.saved.maxPriorityFeePerGas)]_vars

\* the priming call of a validateGasPrice on empty queues threw
C34_Witness ==
    /\ lastGas.op = "validateGasPrice"
    /\ lastGas.error = "thrown"
    /\ lastGas.fetched
    /\ ~lastGas.ok
    /\ queueMaxFeePerGas = <<>>
    /\ nRecorded = 0

\* one entry of a queue after a save of `entry`: none, overwrite or push
OneSave(before, after, entry) ==
    \/ after = before
    \/ Len(before) > 0 /\ after = [before EXCEPT ![Len(before)] = entry]
    \/ after = Append(before, entry)
    \/ Len(before) > 0 /\ after = Append(Tail(before), entry)

\* C35: a getGasPrice call that returns performs exactly one record step,
\* applied once to each queue; a getGasPrice call that throws leaves both
\* queues unchanged.
C35_OneRecordPerSuccessfulFetch ==
    [][(/\ lastGas'.op = "getGasPrice"
        /\ (lastGas' # lastGas \/ nRecorded' # nRecorded))
        => IF lastGas'.ok
           THEN /\ nRecorded' = nRecorded + 1
                /\ lastGas'.save.recorded
                /\ OneSave(queueMaxFeePerGas, queueMaxFeePerGas',
                           [maxFeePerGas |-> lastGas'.saved.maxFeePerGas,
                            timestamp |-> now])
                /\ OneSave(queueMaxPriorityFeePerGas, queueMaxPriorityFeePerGas',
                           [maxPriorityFeePerGas |->
                                lastGas'.saved.maxPriorityFeePerGas,
                            timestamp |-> now])
                /\ Len(queueMaxFeePerGas') > 0
                /\ Len(queueMaxPriorityFeePerGas') > 0
                /\ lastGas'.save.did[1] = "none"
                      <=> queueMaxFeePerGas' = queueMaxFeePerGas
                /\ lastGas'.save.did[2] = "none"
                      <=> queueMaxPriorityFeePerGas' = queueMaxPriorityFeePerGas
           ELSE /\ nRecorded' = nRecorded
                /\ ~lastGas'.save.recorded
                /\ queueMaxFeePerGas' = queueMaxFeePerGas
                /\ queueMaxPriorityFeePerGas' = queueMaxPriorityFeePerGas]_vars

\* a getGasPrice call threw after entries had been recorded
C35_Witness ==
    /\ lastGas.op = "getGasPrice"
    /\ ~lastGas.ok
    /\ nRecorded = 2
    /\ Len(queueMaxFeePerGas) > 0

----------------------------------------------------------------------------
(* Properties of the estimation paths *)

\* the estimate of the path a chain falls through to
FallThroughEstimate ==
    IF applied.args[2]
    THEN getNoEip1559SupportGasPrice(applied.args[4], applied.args[5])
    ELSE applied.args[6]

LegacyEstimated == applied.args[4].ok /\ applied.args[4].value # UNDEF

SingleGasPrice ==
    IF LegacyEstimated THEN applied.args[4].value ELSE applied.args[5].value

\* getGasPrice on a chain without EIP-1559 support: both components come
\* from one gasPrice, and only a failed fallback fails the call
LegacyCallFromSingleGasPrice ==
    LET call == applied.result.call
    IN  /\ call.ok = (LegacyEstimated \/ applied.args[5].ok)
        /\ call.ok
              => /\ call.gasPrice.maxFeePerGas = call.gasPrice.maxPriorityFeePerGas
                 /\ call.gasPrice
                       = bumpTheGasPrice(GasPrice(SingleGasPrice, SingleGasPrice),
                                         applied.args[1])

\* C37 as stated: on a chain with noEip1559Support, getGasPrice returns
\* maxFeePerGas equal to maxPriorityFeePerGas, both from a single gasPrice
\* (the legacy estimate, else getGasPrice()), and fails only when the legacy
\* estimate is missing and the fallback fails.
C37_LegacyAlwaysSingleGasPrice ==
    (applied.fn = "getGasPrice" /\ applied.args[2]) => LegacyCallFromSingleGasPrice

\* C37, amended: the same, for calls that the gas station of Polygon and
\* Mumbai did not answer (other chains, or a failed fetch or parse).
C37_LegacyFromSingleGasPrice ==
    (/\ applied.fn = "getGasPrice"
     /\ applied.args[2]
     /\ applied.result.sources[Len(applied.result.sources)] = "legacy")
        => LegacyCallFromSingleGasPrice

\* the legacy estimate threw and the price of getGasPrice() was returned
C37_Witness ==
    /\ applied.fn = "getGasPrice"
    /\ applied.args[1] = goerli
    /\ applied.args[2]
    /\ ~applied.args[4].ok
    /\ applied.args[5].ok
    /\ applied.result.sources = <<"legacy">>
    /\ applied.result.call.ok
    /\ applied.result.call.gasPrice.maxFeePerGas
          = applied.result.call.gasPrice.maxPriorityFeePerGas

\* what estimateFeesPerGas gave, UNDEF when missing or thrown
EstimatedMaxFeePerGas ==
    IF applied.args[1].ok THEN applied.args[1].value.maxFeePerGas ELSE UNDEF

EstimatedMaxPriorityFeePerGas ==
    IF applied.args[1].ok THEN applied.args[1].value.maxPriorityFeePerGas ELSE UNDEF

\* a fallback that estimateGasPrice needs has failed
NeededFallBackFailed ==
    LET block == applied.args[3]
    IN  \/ EstimatedMaxPriorityFeePerGas = UNDEF /\ ~applied.args[2].ok
        \/ /\ EstimatedMaxFeePerGas = UNDEF
           /\ \/ ~block.ok
              \/ block.value.baseFeePerGas \in {UNDEF, 0} /\ ~applied.args[4].ok

\* the priority fee after the first fallback: min(average reward, fee or 0)
FallBackPriority ==
    LET feeHistory == applied.args[2].value
        gasPrice == IF EstimatedMaxFeePerGas = UNDEF THEN 0 ELSE EstimatedMaxFeePerGas
        average == SumReward(feeHistory.reward) \div 10
    IN  IF EstimatedMaxPriorityFeePerGas # UNDEF THEN EstimatedMaxPriorityFeePerGas
        ELSE IF feeHistory.hasReward /\ average < gasPrice THEN average
        ELSE gasPrice

\* the fee after the second fallback: projected next base fee + priority fee
FallBackFee ==
    LET block == applied.args[3].value
        baseFee == IF block.baseFeePerGas \in {UNDEF, 0}
                   THEN applied.args[4].value ELSE block.baseFeePerGas
    IN  IF EstimatedMaxFeePerGas # UNDEF THEN EstimatedMaxFeePerGas
        ELSE ProjectedBaseFee([block EXCEPT !.baseFeePerGas = baseFee])
                 + FallBackPriority

\* C38: estimateGasPrice replaces a missing maxPriorityFeePerGas by
\* min(average 20th-percentile reward over 10 blocks, maxFeePerGas or 0), a
\* missing maxFeePerGas by the projected next base fee + maxPriorityFeePerGas
\* and a maxPriorityFeePerGas of 0 by maxFeePerGas / 200; it fails only if a
\* fallback it needs has failed.
C38_EstimateFallBacks ==
    applied.fn = "estimateGasPrice"
        => /\ applied.result.ok = ~NeededFallBackFailed
           /\ applied.result.ok
                 => /\ applied.result.value.maxFeePerGas = FallBackFee
                    /\ applied.result.value.maxPriorityFeePerGas
                          = IF FallBackPriority = 0 THEN FallBackFee \div 200
                            ELSE FallBackPriority

----------------------------------------------------------------------------
(* Properties of eviction *)

\* one record step on a queue: a push appends, and makes room at capacity by
\* removing the front entry only; anything else keeps every earlier entry
FifoStep(queue, after, did) ==
    /\ Len(queue) <= maxQueueSize
    /\ did = "push"
          => /\ Len(after) > 0
             /\ SubSeq(after, 1, Len(after) - 1)
                   = IF Len(queue) < maxQueueSize THEN queue ELSE Tail(queue)
    /\ did # "push"
          => /\ Len(after) = Len(queue)
             /\ \A i \in 1..(Len(queue) - 1) : after[i] = queue[i]

\* an entry recorded at timestamp t is in one of the queues
Constraining(t) ==
    \/ \E i \in DOMAIN queueMaxFeePerGas : queueMaxFeePerGas[i].timestamp = t
    \/ \E i \in DOMAIN queueMaxPriorityFeePerGas :
          queueMaxPriorityFeePerGas[i].timestamp = t

\* instants at which a call can record
SteadyTimes == {StartTime + k * (BUCKET_MS \div 2) : k \in 0..(MaxTime \div (BUCKET_MS \div 2))}

\* an entry of timestamp t after which maxQueueSize further calls fit in
\* the time the model covers
ConstrainingWithRoom(t) ==
    /\ Constraining(t)
    /\ t + maxQueueSize * (BUCKET_MS + BUCKET_MS \div 2) <= StartTime + MaxTime

\* C39: eviction is FIFO and happens only on a push at capacity: the entry
\* removed is the front one, the remaining entries keep their order, and an
\* entry leaves on the maxQueueSize-th push after its own; so while
\* getGasPrice keeps succeeding at intervals of at least one second, every
\* recorded entry eventually is in neither queue.
C39_FifoEviction ==
    /\ [][/\ lastGas'.op = "getGasPrice"
             => /\ FifoStep(queueMaxFeePerGas, queueMaxFeePerGas',
                            lastGas'.save.did[1])
                /\ FifoStep(queueMaxPriorityFeePerGas, queueMaxPriorityFeePerGas',
                            lastGas'.save.did[2])
          /\ lastGas'.op # "getGasPrice"
             => /\ queueMaxFeePerGas' = queueMaxFeePerGas
                /\ queueMaxPriorityFeePerGas' = queueMaxPriorityFeePerGas]_vars
    /\ \A t \in SteadyTimes :
          ConstrainingWithRoom(t) ~> ~Constraining(t)

\* the second push after the first entry of a queue of two has evicted it
C39_Witness ==
    /\ lastGas.op = "getGasPrice"
    /\ maxQueueSize = 2
    /\ lastGas.save.evicted = <<TRUE, TRUE>>
    /\ Len(queueMaxFeePerGas) = 2
    /\ queueMaxFeePerGas[1].timestamp > StartTime
    /\ ~Constraining(StartTime)

====
